---------------------------- MODULE Spec2Model ----------------------------
(***************************************************************************)
(* A model of the cross-reference core of the EPUB reader plugin:          *)
(*   - the range-token codec            (utils.ts: base64UrlEncode/Decode) *)
(*   - the backlink resolver            (BacklinkManager.ts)               *)
(*   - the highlight reconciler         (EpubReader.tsx)                   *)
(*   - the jump controller              (EpubReader.tsx, EpubView.tsx)     *)
(*   - the progress store and its rename migration (EpubPlugin.ts)         *)
(*                                                                         *)
(* A JavaScript string is the sequence of its UTF-16 code units, each a    *)
(* natural number (for instance "A/x" is <<65, 47, 120>>).  null and the   *)
(* empty string are both falsy in every test the source makes on a string, *)
(* and both are written <<>> here.                                         *)
(***************************************************************************)
EXTENDS Integers, Sequences, FiniteSets, TLC

VARIABLES
    \* ---- codec harness (utils.ts) ----
    cStage,        \* "idle" | "input" | "encoded" | "decoded"
    cInput,        \* the string handed to base64UrlEncode
    cToken,        \* the token base64UrlEncode returned
    cOutput,       \* what base64UrlDecode did: [ok |-> BOOLEAN, value |-> string]
    cAgain,        \* the token base64UrlEncode made of a decoded string
    \* ---- resolver harness (BacklinkManager.ts) ----
    rStage,        \* "idle" | "indexed" | "done"
    rCaches,       \* metadataCache.getFileCache: note path -> [links, embeds]
    rLimit,        \* the limit argument of getHighlightsForBook
    rResult,       \* the descriptors getHighlightsForBook returned
    \* ---- the view (EpubView.tsx) ----
    fileLoaded,    \* this.fileContent is set
    viewJump,      \* this.jumpCfiRange
    viewHighlights,\* this.highlights
    unloaded,      \* onunload has run: the component is unmounted
    delivery,      \* history: the last jump request handed to setEphemeralState
    refreshLog,    \* history: what the last debounced refresh found and did
    handover,      \* history: what the last renderReader passed as jumpCfiRange
    \* ---- the reader component (EpubReader.tsx) ----
    mounted,       \* the component has rendered at least once
    propJump,      \* the jumpCfiRange prop of the last render
    propHighlights,\* the highlights prop of the last render
    renditionRef,  \* renditionRef.current and the rendition state: 0 is null
    pendingJumpRef,        \* pendingJumpRef.current
    addedBacklinkCfisRef,  \* addedBacklinkCfisRef.current
    highlightsRef,         \* highlightsRef.current
    jumpTasks,     \* the displayJumpCfi calls in flight
    hlRun,         \* the run() of the highlights effect that awaits book.ready
    \* ---- the renderer (epub.js), one surface per rendition ----
    readySettled,  \* book.ready has settled
    hasContents,   \* getContents() is not empty
    displayed,     \* the range the last successful display() showed
    annotations,   \* how many highlight annotations each range carries
    \* ---- history, kept for the claims only ----
    reqCount,      \* jump requests the reader has received
    pendingReq,    \* the request pendingJumpRef was last set by
    reqTarget,     \* the target of each request
    directAttempts,   \* display(target) calls made for each request
    fallbackAttempts, \* display(start anchor) calls made for each request
    lastSettled,   \* the display() promise that settled last
    applyLog,      \* the last applyBacklinkHighlights call
    \* ---- the plugin's progress store (EpubPlugin.ts) ----
    progress,      \* this.data.progress: key -> record
    saveTimer,     \* this.saveTimer is set
    saved,         \* the progress map last written to data.json
    timerLeft,     \* time until the armed timer is due
    notices,       \* notices the save path has shown to the user
    \* ---- history of the store, kept for the claims only ----
    storeOps,      \* setProgress calls and rename events so far
    prevProgress,  \* the store before the last of them
    lastOp,        \* the last of them
    sinceSet,      \* time gone since the last setProgress, up to SaveDelay
    burst,         \* setProgress calls in a row, each within SaveDelay of the last
    writeLog,      \* how each write of savePluginData ended, in order
    \* ---- parser harness (utils.ts) ----
    pStage,        \* "idle" | "input" | "done"
    pInput,        \* the text handed to parseEpubCfi64Link
    pResult,       \* what the call did: [threw, found, path, cfi64]
    pPlain,        \* the plain link text of the same path and fragment
    pPlainResult,  \* what the call with the plain text did
    \* ---- one surface under long descriptor lists (EpubReader.tsx) ----
    kStage,        \* "idle" | "input" | "done"
    kList,         \* the descriptor list handed to applyBacklinkHighlights
    kAddOk,        \* which annotations.add calls the surface accepts
    kTracked,      \* addedBacklinkCfisRef.current of that surface
    kSurface,      \* how many annotations each range carries
    kCalls         \* calls made so far

codecVars == <<cStage, cInput, cToken, cOutput, cAgain>>
resolverVars == <<rStage, rCaches, rLimit, rResult>>
viewVars == <<fileLoaded, viewJump, viewHighlights, unloaded, delivery, refreshLog,
              handover>>
jumpVars == <<mounted, propJump, renditionRef, pendingJumpRef, jumpTasks, readySettled,
              displayed, reqCount, pendingReq, reqTarget, directAttempts,
              fallbackAttempts, lastSettled>>
highlightVars == <<propHighlights, addedBacklinkCfisRef, highlightsRef, hlRun,
                   hasContents, annotations, applyLog>>
readerVars == <<viewVars, jumpVars, highlightVars>>

progressVars == <<progress, saveTimer, saved, timerLeft, notices, storeOps, prevProgress,
                  lastOp, sinceSet, burst, writeLog>>

parserVars == <<pStage, pInput, pResult, pPlain, pPlainResult>>

capVars == <<kStage, kList, kAddOk, kTracked, kSurface, kCalls>>

vars == <<codecVars, resolverVars, readerVars, progressVars, parserVars, capVars>>

(***************************************************************************)
(* Bounds of the codec harness.                                            *)
(***************************************************************************)
MaxStrLen == 3

\* Code units the inputs are drawn from: 'A', '>', '?' (whose base64 holds
\* '+' and '/'), '=', '+', '/', e-acute (2 bytes), a CJK letter (3 bytes),
\* U+FEFF, and the two halves of an astral character (4 bytes as a pair,
\* lone surrogates otherwise).
CodeUnits == {65, 62, 63, 61, 43, 47, 233, 20013, 65279, 55357, 56832}

RECURSIVE SeqsUpTo(_, _)
SeqsUpTo(S, n) ==
    IF n = 0 THEN {<<>>}
    ELSE LET shorter == SeqsUpTo(S, n - 1)
         IN  shorter \cup {Append(s, x) : s \in {t \in shorter : Len(t) = n - 1}, x \in S}

Strings == SeqsUpTo(CodeUnits, MaxStrLen)

(***************************************************************************)
(* TextEncoder.encode: the string is first converted to scalar values (a   *)
(* surrogate pair is one code point, an unpaired surrogate becomes U+FFFD) *)
(* and each scalar value is written in UTF-8.                              *)
(***************************************************************************)
IsHighSurrogate(u) == u >= 55296 /\ u <= 56319
IsLowSurrogate(u) == u >= 56320 /\ u <= 57343

RECURSIVE ScalarValuesFrom(_, _)
ScalarValuesFrom(s, i) ==
    IF i > Len(s) THEN <<>>
    ELSE IF IsHighSurrogate(s[i]) /\ i < Len(s) /\ IsLowSurrogate(s[i + 1])
         THEN <<65536 + ((s[i] - 55296) * 1024) + (s[i + 1] - 56320)>>
                  \o ScalarValuesFrom(s, i + 2)
         ELSE IF IsHighSurrogate(s[i]) \/ IsLowSurrogate(s[i])
              THEN <<65533>> \o ScalarValuesFrom(s, i + 1)
              ELSE <<s[i]>> \o ScalarValuesFrom(s, i + 1)

Utf8Bytes(cp) ==
    IF cp < 128 THEN <<cp>>
    ELSE IF cp < 2048 THEN <<192 + (cp \div 64), 128 + (cp % 64)>>
    ELSE IF cp < 65536
         THEN <<224 + (cp \div 4096), 128 + ((cp \div 64) % 64), 128 + (cp % 64)>>
         ELSE <<240 + (cp \div 262144), 128 + ((cp \div 4096) % 64),
                128 + ((cp \div 64) % 64), 128 + (cp % 64)>>

RECURSIVE FlatMapBytes(_, _)
FlatMapBytes(cps, i) ==
    IF i > Len(cps) THEN <<>> ELSE Utf8Bytes(cps[i]) \o FlatMapBytes(cps, i + 1)

TextEncode(s) == FlatMapBytes(ScalarValuesFrom(s, 1), 1)

(***************************************************************************)
(* btoa: standard base64 with '=' padding, as character codes.             *)
(***************************************************************************)
B64Char(v) ==
    IF v < 26 THEN 65 + v
    ELSE IF v < 52 THEN 97 + (v - 26)
    ELSE IF v < 62 THEN 48 + (v - 52)
    ELSE IF v = 62 THEN 43 ELSE 47

RECURSIVE BtoaFrom(_, _)
BtoaFrom(b, i) ==
    IF i > Len(b) THEN <<>>
    ELSE IF i + 2 <= Len(b)
         THEN <<B64Char(b[i] \div 4),
                B64Char(((b[i] % 4) * 16) + (b[i + 1] \div 16)),
                B64Char(((b[i + 1] % 16) * 4) + (b[i + 2] \div 64)),
                B64Char(b[i + 2] % 64)>> \o BtoaFrom(b, i + 3)
         ELSE IF i + 1 = Len(b)
              THEN <<B64Char(b[i] \div 4),
                     B64Char(((b[i] % 4) * 16) + (b[i + 1] \div 16)),
                     B64Char((b[i + 1] % 16) * 4), 61>>
              ELSE <<B64Char(b[i] \div 4), B64Char((b[i] % 4) * 16), 61, 61>>

Btoa(b) == BtoaFrom(b, 1)

\* String.prototype.replace(/c/g, d) for a one-character pattern.
ReplaceAll(s, from, to) == [i \in 1..Len(s) |-> IF s[i] = from THEN to ELSE s[i]]

\* String.prototype.replace(/=+$/g, "").
RECURSIVE StripTrailingPad(_)
StripTrailingPad(s) ==
    IF Len(s) > 0 /\ s[Len(s)] = 61 THEN StripTrailingPad(SubSeq(s, 1, Len(s) - 1)) ELSE s

base64UrlEncode(input) ==
    StripTrailingPad(ReplaceAll(ReplaceAll(Btoa(TextEncode(input)), 43, 45), 47, 95))

(***************************************************************************)
(* atob: the forgiving base64 decoder.  [ok |-> FALSE] is the exception    *)
(* it throws.                                                              *)
(***************************************************************************)
IsB64Char(c) ==
    \/ c >= 65 /\ c <= 90
    \/ c >= 97 /\ c <= 122
    \/ c >= 48 /\ c <= 57
    \/ c = 43
    \/ c = 47

B64Value(c) ==
    IF c >= 65 /\ c <= 90 THEN c - 65
    ELSE IF c >= 97 /\ c <= 122 THEN (c - 97) + 26
    ELSE IF c >= 48 /\ c <= 57 THEN (c - 48) + 52
    ELSE IF c = 43 THEN 62 ELSE 63

IsAsciiWhitespace(c) == c \in {9, 10, 12, 13, 32}

RECURSIVE RemoveWhitespace(_)
RemoveWhitespace(s) ==
    IF s = <<>> THEN <<>>
    ELSE IF IsAsciiWhitespace(Head(s)) THEN RemoveWhitespace(Tail(s))
         ELSE <<Head(s)>> \o RemoveWhitespace(Tail(s))

\* At most two trailing '=' are removed, and only from a length that is a
\* multiple of four.
DropPadding(s) ==
    IF Len(s) % 4 = 0 /\ Len(s) > 0 /\ s[Len(s)] = 61
    THEN IF s[Len(s) - 1] = 61 THEN SubSeq(s, 1, Len(s) - 2)
         ELSE SubSeq(s, 1, Len(s) - 1)
    ELSE s

RECURSIVE AtobBytesFrom(_, _)
AtobBytesFrom(d, i) ==
    IF i > Len(d) THEN <<>>
    ELSE IF i + 3 <= Len(d)
         THEN <<(B64Value(d[i]) * 4) + (B64Value(d[i + 1]) \div 16),
                ((B64Value(d[i + 1]) % 16) * 16) + (B64Value(d[i + 2]) \div 4),
                ((B64Value(d[i + 2]) % 4) * 64) + B64Value(d[i + 3])>>
                  \o AtobBytesFrom(d, i + 4)
         ELSE IF i + 2 = Len(d)
              THEN <<(B64Value(d[i]) * 4) + (B64Value(d[i + 1]) \div 16),
                     ((B64Value(d[i + 1]) % 16) * 16) + (B64Value(d[i + 2]) \div 4)>>
              ELSE <<(B64Value(d[i]) * 4) + (B64Value(d[i + 1]) \div 16)>>

Atob(s) ==
    LET d == DropPadding(RemoveWhitespace(s))
    IN  IF Len(d) % 4 = 1 \/ \E i \in 1..Len(d) : ~IsB64Char(d[i])
        THEN [ok |-> FALSE, value |-> <<>>]
        ELSE [ok |-> TRUE, value |-> AtobBytesFrom(d, 1)]

(***************************************************************************)
(* new TextDecoder().decode(bytes): the UTF-8 decoder in its default mode. *)
(* fatal is false, so an ill-formed sequence yields U+FFFD and never an    *)
(* exception; ignoreBOM is false, so a leading EF BB BF is consumed.       *)
(* need = continuation bytes still expected, lo..hi = the range the next   *)
(* one must lie in, cp = the code point built so far.                      *)
(***************************************************************************)
RECURSIVE Utf8DecodeFrom(_, _, _, _, _, _)
Utf8DecodeFrom(b, i, need, cp, lo, hi) ==
    IF i > Len(b) THEN (IF need > 0 THEN <<65533>> ELSE <<>>)
    ELSE LET x == b[i]
         IN  IF need = 0
             THEN IF x < 128 THEN <<x>> \o Utf8DecodeFrom(b, i + 1, 0, 0, 128, 191)
                  ELSE IF x >= 194 /\ x <= 223
                       THEN Utf8DecodeFrom(b, i + 1, 1, x % 32, 128, 191)
                  ELSE IF x >= 224 /\ x <= 239
                       THEN Utf8DecodeFrom(b, i + 1, 2, x % 16,
                                           IF x = 224 THEN 160 ELSE 128,
                                           IF x = 237 THEN 159 ELSE 191)
                  ELSE IF x >= 240 /\ x <= 244
                       THEN Utf8DecodeFrom(b, i + 1, 3, x % 8,
                                           IF x = 240 THEN 144 ELSE 128,
                                           IF x = 244 THEN 143 ELSE 191)
                  ELSE <<65533>> \o Utf8DecodeFrom(b, i + 1, 0, 0, 128, 191)
             ELSE IF x < lo \/ x > hi
                  THEN \* the byte is looked at again as the start of a sequence
                       <<65533>> \o Utf8DecodeFrom(b, i, 0, 0, 128, 191)
                  ELSE IF need = 1
                       THEN <<cp * 64 + (x % 64)>> \o Utf8DecodeFrom(b, i + 1, 0, 0, 128, 191)
                       ELSE Utf8DecodeFrom(b, i + 1, need - 1, cp * 64 + (x % 64), 128, 191)

HasBom(b) == Len(b) >= 3 /\ b[1] = 239 /\ b[2] = 187 /\ b[3] = 191

\* A code point above U+FFFF is two code units in the resulting string.
RECURSIVE ToCodeUnits(_)
ToCodeUnits(cps) ==
    IF cps = <<>> THEN <<>>
    ELSE IF Head(cps) >= 65536
         THEN <<55296 + ((Head(cps) - 65536) \div 1024), 56320 + ((Head(cps) - 65536) % 1024)>>
                  \o ToCodeUnits(Tail(cps))
         ELSE <<Head(cps)>> \o ToCodeUnits(Tail(cps))

TextDecode(b) ==
    ToCodeUnits(Utf8DecodeFrom(b, IF HasBom(b) THEN 4 ELSE 1, 0, 0, 128, 191))

\* while (base64.length % 4) base64 += "="
RECURSIVE PadToFour(_)
PadToFour(s) == IF Len(s) % 4 # 0 THEN PadToFour(Append(s, 61)) ELSE s

base64UrlDecode(encoded) ==
    LET binary == Atob(PadToFour(ReplaceAll(ReplaceAll(encoded, 45, 43), 95, 47)))
    IN  IF binary.ok THEN [ok |-> TRUE, value |-> TextDecode(binary.value)]
        ELSE [ok |-> FALSE, value |-> <<>>]

(***************************************************************************)
(* BacklinkManager.getHighlightsForBook.                                   *)
(*                                                                         *)
(* The vault holds the open book b.epub, a second book of the same name in *)
(* another folder, and two notes.  A note's cache lists its links and its  *)
(* embeds; each entry has the file its link resolves to                    *)
(* (getFirstLinkpathDest, <<>> when it resolves to nothing), the original  *)
(* text of the link, and an optional display text.                         *)
(***************************************************************************)
MaxItems == 2
DefaultLimit == 200

BookPath == <<98, 46, 101, 112, 117, 98>>                 \* "b.epub"
OtherBookPath == <<111, 47, 98, 46, 101, 112, 117, 98>>   \* "o/b.epub"
NoteOrder == << <<110, 49, 46, 109, 100>>, <<110, 50, 46, 109, 100>> >>  \* "n1.md", "n2.md"
NotePaths == {NoteOrder[i] : i \in 1..Len(NoteOrder)}

HashCfi64 == <<35, 99, 102, 105, 54, 52, 61>>             \* "#cfi64="
TokQQ == <<81, 81>>          \* decodes to "A"
TokQR == <<81, 82>>          \* decodes to "A" as well: the spare bits are dropped
TokQ == <<81>>               \* atob throws: one symbol is no byte
TokQUI == <<81, 85, 73>>     \* decodes to "AB"

\* "[[" path fragment "|x]]"
WikiLink(path, fragment) == <<91, 91>> \o path \o fragment \o <<124, 120, 93, 93>>

LinkPool ==
    { [dest |-> BookPath, original |-> WikiLink(BookPath, HashCfi64 \o TokQQ),
       hasDisplayText |-> TRUE, displayText |-> <<120>>],
      [dest |-> BookPath,
       original |-> WikiLink(BookPath, HashCfi64 \o TokQ \o HashCfi64 \o TokQUI),
       hasDisplayText |-> TRUE, displayText |-> <<120>>],
      [dest |-> BookPath, original |-> WikiLink(BookPath, HashCfi64 \o TokQR),
       hasDisplayText |-> TRUE, displayText |-> <<120>>],
      [dest |-> OtherBookPath, original |-> WikiLink(BookPath, HashCfi64 \o TokQUI),
       hasDisplayText |-> TRUE, displayText |-> <<120>>] }

EmbedPool ==
    { <<>>,
      << [dest |-> BookPath, original |-> <<33>> \o WikiLink(BookPath, HashCfi64 \o TokQUI),
          hasDisplayText |-> FALSE, displayText |-> <<>>] >>,
      << [dest |-> <<>>, original |-> <<33>> \o WikiLink(BookPath, HashCfi64 \o TokQQ),
          hasDisplayText |-> FALSE, displayText |-> <<>>] >> }

Caches == [NotePaths -> [links : SeqsUpTo(LinkPool, MaxItems), embeds : EmbedPool]]
\* No index of the model yields more than three descriptors.
Limits == {0, 1, 2, DefaultLimit}

\* metadataCache.resolvedLinks: for each note the files its links resolve to.
resolvedLinks(caches) ==
    [n \in NotePaths |->
        LET items == caches[n].links \o caches[n].embeds
        IN  {items[i].dest : i \in 1..Len(items)} \ {<<>>}]

\* The coarse candidates, in the order of the entries of resolvedLinks.
RECURSIVE CandidatesFrom(_, _, _)
CandidatesFrom(caches, bookPath, i) ==
    IF i > Len(NoteOrder) THEN <<>>
    ELSE IF bookPath \in resolvedLinks(caches)[NoteOrder[i]]
         THEN <<NoteOrder[i]>> \o CandidatesFrom(caches, bookPath, i + 1)
         ELSE CandidatesFrom(caches, bookPath, i + 1)

IsTokenChar(c) ==
    \/ c >= 65 /\ c <= 90
    \/ c >= 97 /\ c <= 122
    \/ c >= 48 /\ c <= 57
    \/ c = 95
    \/ c = 45

StartsWithAt(s, i, prefix) ==
    /\ i + Len(prefix) - 1 <= Len(s)
    /\ \A k \in 1..Len(prefix) : s[i + k - 1] = prefix[k]

\* The longest run of token characters of s that starts at i.
RECURSIVE TokenRun(_, _)
TokenRun(s, i) ==
    IF i <= Len(s) /\ IsTokenChar(s[i]) THEN <<s[i]>> \o TokenRun(s, i + 1) ELSE <<>>

\* Every match of /#cfi64=([A-Za-z0-9_-]+)/g in s from position i on, left to
\* right, each match resuming where the previous one ended.
RECURSIVE Cfi64Matches(_, _)
Cfi64Matches(s, i) ==
    IF i > Len(s) THEN <<>>
    ELSE IF StartsWithAt(s, i, HashCfi64) /\ TokenRun(s, i + Len(HashCfi64)) # <<>>
         THEN LET tok == TokenRun(s, i + Len(HashCfi64))
              IN  <<tok>> \o Cfi64Matches(s, i + Len(HashCfi64) + Len(tok))
         ELSE Cfi64Matches(s, i + 1)

\* original.indexOf("#cfi64=") !== -1
ContainsCfi64(s) == \E i \in 1..Len(s) : StartsWithAt(s, i, HashCfi64)

\* The two scans of each link text of the vault, computed once per text.
Originals ==
    {item.original : item \in LinkPool} \cup {e[1].original : e \in EmbedPool \ {<<>>}}
ScanOf == [o \in Originals |->
              [contains |-> ContainsCfi64(o), matches |-> Cfi64Matches(o, 1)]]

\* TFile.basename: the name without folder and extension.
RECURSIVE LastIndexOf(_, _, _)
LastIndexOf(s, c, i) == IF i = 0 THEN 0 ELSE IF s[i] = c THEN i ELSE LastIndexOf(s, c, i - 1)

Basename(path) ==
    LET name == SubSeq(path, LastIndexOf(path, 47, Len(path)) + 1, Len(path))
        dot == LastIndexOf(name, 46, Len(name))
    IN  IF dot > 1 THEN SubSeq(name, 1, dot - 1) ELSE name

\* A filter that goes by the file's name, whatever its folder.
ResolvesToBook_ByName(dest, bookPath) == dest # <<>> /\ Basename(dest) = Basename(bookPath)

\* dest && dest.path === bookFile.path
ResolvesToBook(dest, bookPath) == dest # <<>> /\ dest = bookPath

\* The token occurrences the two inner loops visit, in order: for each
\* candidate, for each link then each embed that resolves to the book and
\* whose original text holds "#cfi64=", each match of the pattern.
RECURSIVE ItemOccurrences(_, _, _, _)
ItemOccurrences(items, i, sourcePath, bookPath) ==
    IF i > Len(items) THEN <<>>
    ELSE LET item == items[i]
             display == IF item.hasDisplayText THEN item.displayText
                        ELSE Basename(sourcePath)
             toks == ScanOf[item.original].matches
             here == IF ~ResolvesToBook(item.dest, bookPath) THEN <<>>
                     ELSE IF item.original = <<>> \/ ~ScanOf[item.original].contains THEN <<>>
                     ELSE [k \in 1..Len(toks) |->
                              [encoded |-> toks[k], sourceFile |-> sourcePath,
                               display |-> display]]
         IN  here \o ItemOccurrences(items, i + 1, sourcePath, bookPath)

RECURSIVE Occurrences(_, _, _, _)
Occurrences(caches, candidates, i, bookPath) ==
    IF i > Len(candidates) THEN <<>>
    ELSE ItemOccurrences(caches[candidates[i]].links \o caches[candidates[i]].embeds,
                         1, candidates[i], bookPath)
             \o Occurrences(caches, candidates, i + 1, bookPath)

\* A resolver that forgets the tokens it has seen.
SeenHas_Never(seen, encoded) == FALSE

\* seenEncoded.has(encoded)
SeenHas(seen, encoded) == encoded \in seen

\* results.length >= limit, tested right after a push
LimitReached(results, limit) == Len(results) >= limit

\* A scan that a failed decoding ends: what it has is what it returns.
AfterFailedDecode_Stop(results, rest) == results

\* catch { }: the loop goes on with the next match.
AfterFailedDecode(results, rest) == rest

\* The body of the while loop, over the occurrences in order.  A descriptor
\* carries, beside the three fields of BacklinkHighlight, the token it was
\* decoded from (encoded): the source does not keep it, the claims speak of it.
RECURSIVE Collect(_, _, _, _, _)
Collect(occ, i, seen, results, limit) ==
    IF i > Len(occ) THEN results
    ELSE IF SeenHas(seen, occ[i].encoded) THEN Collect(occ, i + 1, seen, results, limit)
    ELSE LET decoded == base64UrlDecode(occ[i].encoded)
             seen2 == seen \cup {occ[i].encoded}
         IN  IF ~decoded.ok
             THEN AfterFailedDecode(results, Collect(occ, i + 1, seen2, results, limit))
             ELSE LET pushed == Append(results,
                                       [cfiRange |-> decoded.value,
                                        sourceFile |-> occ[i].sourceFile,
                                        display |-> occ[i].display,
                                        encoded |-> occ[i].encoded])
                  IN  IF LimitReached(pushed, limit) THEN pushed
                      ELSE Collect(occ, i + 1, seen2, pushed, limit)

getHighlightsForBook(caches, bookPath, limit) ==
    Collect(Occurrences(caches, CandidatesFrom(caches, bookPath, 1), 1, bookPath),
            1, {}, <<>>, limit)

ResolverInit ==
    /\ rStage = "idle"
    /\ rCaches = [n \in NotePaths |-> [links |-> <<>>, embeds |-> <<>>]]
    /\ rLimit = DefaultLimit
    /\ rResult = <<>>

\* The notes are edited and the metadata cache is rebuilt.
ResolverIndex ==
    /\ rStage = "idle"
    /\ \E c \in Caches, l \in Limits : rCaches' = c /\ rLimit' = l
    /\ rStage' = "indexed"
    /\ UNCHANGED rResult
    /\ UNCHANGED <<codecVars, readerVars, progressVars, parserVars, capVars>>

ResolverCall ==
    /\ rStage = "indexed"
    /\ rResult' = getHighlightsForBook(rCaches, BookPath, rLimit)
    /\ rStage' = "done"
    /\ UNCHANGED <<rCaches, rLimit>>
    /\ UNCHANGED <<codecVars, readerVars, progressVars, parserVars, capVars>>

ResolverNext == ResolverIndex \/ ResolverCall

(***************************************************************************)
(* The codec harness: a caller picks a string, encodes it, and decodes the *)
(* token it got.                                                           *)
(***************************************************************************)
CodecInit ==
    /\ cStage = "idle"
    /\ cInput = <<>>
    /\ cToken = <<>>
    /\ cOutput = [ok |-> FALSE, value |-> <<>>]
    /\ cAgain = <<>>

CodecPick ==
    /\ cStage = "idle"
    /\ \E s \in Strings : cInput' = s
    /\ cStage' = "input"
    /\ UNCHANGED <<cToken, cOutput, cAgain>>
    /\ UNCHANGED <<resolverVars, readerVars, progressVars, parserVars, capVars>>

CodecEncode ==
    /\ cStage = "input"
    /\ cToken' = base64UrlEncode(cInput)
    /\ cStage' = "encoded"
    /\ UNCHANGED <<cInput, cOutput, cAgain>>
    /\ UNCHANGED <<resolverVars, readerVars, progressVars, parserVars, capVars>>

CodecDecode ==
    /\ cStage = "encoded"
    /\ cOutput' = base64UrlDecode(cToken)
    /\ cStage' = "decoded"
    /\ UNCHANGED <<cInput, cToken, cAgain>>
    /\ UNCHANGED <<resolverVars, readerVars, progressVars, parserVars, capVars>>

CodecNext == CodecPick \/ CodecEncode \/ CodecDecode

\* The other way round: a token comes from a link, is decoded, and the
\* string is encoded again.
MaxTokenLen == 3
TokenUnits == {81, 82, 95, 119, 45, 61, 32}      \* Q R _ w - = and the space
Tokens == SeqsUpTo(TokenUnits, MaxTokenLen)

TokenPick(tok) ==
    /\ cStage = "idle"
    /\ cToken' = tok
    /\ cStage' = "token"
    /\ UNCHANGED <<cInput, cOutput, cAgain>>
    /\ UNCHANGED <<resolverVars, readerVars, progressVars, parserVars, capVars>>

TokenDecode ==
    /\ cStage = "token"
    /\ cOutput' = base64UrlDecode(cToken)
    /\ cStage' = "read"
    /\ UNCHANGED <<cInput, cToken, cAgain>>
    /\ UNCHANGED <<resolverVars, readerVars, progressVars, parserVars, capVars>>

TokenEncode ==
    /\ cStage = "read"
    /\ cOutput.ok
    /\ cAgain' = base64UrlEncode(cOutput.value)
    /\ cStage' = "rewritten"
    /\ UNCHANGED <<cInput, cToken, cOutput>>
    /\ UNCHANGED <<resolverVars, readerVars, progressVars, parserVars, capVars>>

TokenNext ==
    \/ \E tok \in Tokens : TokenPick(tok)
    \/ TokenDecode
    \/ TokenEncode

(***************************************************************************)
(* The reader: EpubView (the view) renders EpubReader (the component),     *)
(* which drives an epub.js rendition.                                      *)
(***************************************************************************)
MaxRenditions == 2     \* renditions react-reader hands to getRendition
MaxJumps == 2          \* jump requests delivered to the view
MaxAnnotations == 2    \* annotations the surface carries for one range
BacklinkCap == 80

Renditions == 1..MaxRenditions
Requests == 1..MaxJumps

Epubcfi == <<101, 112, 117, 98, 99, 102, 105, 40>>                   \* "epubcfi("
TargetRange == Epubcfi \o <<47, 50, 44, 47, 52, 44, 47, 54, 41>>     \* "epubcfi(/2,/4,/6)"
TargetPoint == Epubcfi \o <<47, 56, 41>>                             \* "epubcfi(/8)"
Ranges == {TargetRange, TargetPoint}

IsLineTerminator(c) == c \in {10, 13, 8232, 8233}

\* The place of the first ',' of s at or after i with no line terminator
\* before it; 0 when there is none.
RECURSIVE FirstCommaFrom(_, _)
FirstCommaFrom(s, i) ==
    IF i > Len(s) THEN 0
    ELSE IF s[i] = 44 THEN i
    ELSE IF IsLineTerminator(s[i]) THEN 0
    ELSE FirstCommaFrom(s, i + 1)

\* cfi.match(/^epubcfi\((.+?),/): the group is the shortest non-empty text
\* after "epubcfi(" that a ',' follows.  <<>> is null.
getRangeStartCfi(cfi) ==
    IF ~StartsWithAt(cfi, 1, Epubcfi) \/ Len(cfi) <= Len(Epubcfi) THEN <<>>
    ELSE IF IsLineTerminator(cfi[Len(Epubcfi) + 1]) THEN <<>>
    ELSE LET comma == FirstCommaFrom(cfi, Len(Epubcfi) + 2)
         IN  IF comma = 0 THEN <<>>
             ELSE Epubcfi \o SubSeq(cfi, Len(Epubcfi) + 1, comma - 1) \o <<41>>

\* What display() can show: a target, or the start anchor of one.
Shown == {<<>>} \cup Ranges \cup ({getRangeStartCfi(c) : c \in Ranges} \ {<<>>})

\* The tokens a jump request can carry: the two targets encoded, and a
\* token atob rejects.
JumpTokens == {base64UrlEncode(TargetRange), base64UrlEncode(TargetPoint), TokQ}
DecodedToken == [tok \in JumpTokens |-> base64UrlDecode(tok)]

\* The descriptor lists the view can hold.  The first two descriptors are
\* backlinks of two notes to the same range (two tokens decode to it).
HlRange1 == [cfiRange |-> TargetRange, sourceFile |-> NoteOrder[1], display |-> <<120>>]
HlRange2 == [cfiRange |-> TargetRange, sourceFile |-> NoteOrder[2], display |-> <<120>>]
HlPoint == [cfiRange |-> TargetPoint, sourceFile |-> NoteOrder[1], display |-> <<120>>]
HighlightLists == {<<>>, <<HlRange1>>, <<HlRange1, HlPoint>>, <<HlRange1, HlRange2>>}

\* What a refresh can find: those lists, the first backlink under another
\* label (the alias of the link was edited), and two backlinks swapped.
HlRange1Relabelled == [cfiRange |-> TargetRange, sourceFile |-> NoteOrder[1], display |-> <<121>>]
RefreshLists == HighlightLists \cup {<<HlRange1Relabelled>>, <<HlPoint, HlRange1>>}

(***************************************************************************)
(* applyBacklinkHighlights(r, next).  removeOk[i] tells whether the i-th   *)
(* annotations.remove returns (TRUE) or throws (FALSE), addOk[i] the same  *)
(* for the i-th annotations.add.  A call that throws leaves the surface as *)
(* it was; a remove that returns takes one annotation of the range away,   *)
(* an add that returns puts one there.                                     *)
(***************************************************************************)
AnnRemove(count, times) == IF count > times THEN count - times ELSE 0
AnnAdd(count, times) == count + times

\* The surface after the first i turns of the loop that removes: each range
\* has lost one annotation for every remove of it that returned.
RemoveOld(ann, added, i, removeOk) ==
    [c \in DOMAIN ann |->
        AnnRemove(ann[c], Cardinality({k \in 1..i : removeOk[k] /\ added[k] = c}))]

\* The list as it is, however long.
Capped_All(next) == next

\* (next ?? []).slice(0, 80)
Capped(next) == SubSeq(next, 1, IF Len(next) < BacklinkCap THEN Len(next) ELSE BacklinkCap)

\* After the loop that removes: addedBacklinkCfisRef.current = []
TrackedAfterRemoval(added) == <<>>

\* The surface and the tracked ranges after the first i turns of the loop
\* that adds.
AddedAnnotations(ann, capped, i, addOk) ==
    [c \in DOMAIN ann |->
        AnnAdd(ann[c], Cardinality({k \in 1..i : addOk[k] /\ capped[k].cfiRange = c}))]

\* The ranges pushed in the turns lo..hi of the loop, in the order of the
\* turns (the turns are taken half by half).
RECURSIVE PushedIn(_, _, _, _)
PushedIn(capped, addOk, lo, hi) ==
    IF lo > hi THEN <<>>
    ELSE IF lo = hi THEN (IF addOk[lo] THEN <<capped[lo].cfiRange>> ELSE <<>>)
    ELSE PushedIn(capped, addOk, lo, (lo + hi) \div 2)
             \o PushedIn(capped, addOk, ((lo + hi) \div 2) + 1, hi)

AddedTracked(added, capped, i, addOk) == added \o PushedIn(capped, addOk, 1, i)

AddNew(st, capped, i, addOk) ==
    [ann |-> AddedAnnotations(st.ann, capped, i, addOk),
     added |-> AddedTracked(st.added, capped, i, addOk)]

applyBacklinkHighlights(ann, added, next, removeOk, addOk) ==
    AddNew([ann |-> RemoveOld(ann, added, Len(added), removeOk),
            added |-> TrackedAfterRemoval(added)],
           Capped(next), Len(Capped(next)), addOk)

\* One call on rendition r from the reader state h = [ann, added, log], with
\* the record of the call kept in log: the list applied, the ranges whose
\* add returned, and whether the call before it applied the same list to the
\* same rendition.
ApplyStep(h, r, next, removeOk, addOk) ==
    LET res == applyBacklinkHighlights(h.ann[r], h.added, next, removeOk, addOk)
        capped == Capped(next)
    IN  [ann |-> [h.ann EXCEPT ![r] = res.ann],
         added |-> res.added,
         log |-> [r |-> r, list |-> next,
                  accepted |-> {capped[i].cfiRange : i \in {k \in 1..Len(capped) : addOk[k]}},
                  repeat |-> h.log.r = r /\ h.log.list = next]]

\* Every outcome of one call, over what the surface may accept or reject.
ApplySet(h, r, next) ==
    {ApplyStep(h, r, next, removeOk, addOk) :
        removeOk \in [1..Len(h.added) -> BOOLEAN],
        addOk \in [1..Len(Capped(next)) -> BOOLEAN]}

ApplyIf(cond, hs, r, next) ==
    IF cond THEN UNION {ApplySet(h, r, next) : h \in hs} ELSE hs

NoLog == [r |-> 0, list |-> <<>>, accepted |-> {}, repeat |-> FALSE]
NoRun == [active |-> FALSE, r |-> 0, list |-> <<>>]
NoRefresh == [differs |-> FALSE, taken |-> FALSE, rendered |-> FALSE]
NoDelivery == [target |-> <<>>, attached |-> FALSE, repeated |-> FALSE, started |-> FALSE]
NoSettle == [req |-> 0, r |-> 0, kind |-> "none", ok |-> FALSE, done |-> FALSE, cfi |-> <<>>]

WithinAnnotationBound(ann) ==
    \A r \in Renditions : \A c \in Ranges : ann[r][c] <= MaxAnnotations

\* No render yet.
NoHandover == [cause |-> "held", passed |-> <<>>, started |-> FALSE]

ReaderInit ==
    /\ fileLoaded = FALSE
    /\ viewJump = <<>>
    /\ viewHighlights = <<>>
    /\ unloaded = FALSE
    /\ delivery = NoDelivery
    /\ refreshLog = NoRefresh
    /\ handover = NoHandover
    /\ mounted = FALSE
    /\ propJump = <<>>
    /\ propHighlights = <<>>
    /\ renditionRef = 0
    /\ pendingJumpRef = <<>>
    /\ addedBacklinkCfisRef = <<>>
    /\ highlightsRef = <<>>
    /\ jumpTasks = {}
    /\ hlRun = NoRun
    /\ readySettled = [r \in Renditions |-> FALSE]
    /\ hasContents = [r \in Renditions |-> FALSE]
    /\ displayed = [r \in Renditions |-> <<>>]
    /\ annotations = [r \in Renditions |-> [c \in Ranges |-> 0]]
    /\ reqCount = 0
    /\ pendingReq = 0
    /\ reqTarget = [q \in Requests |-> <<>>]
    /\ directAttempts = [q \in Requests |-> 0]
    /\ fallbackAttempts = [q \in Requests |-> 0]
    /\ lastSettled = NoSettle
    /\ applyLog = NoLog

\* displayJumpCfi(cfi) up to its first real wait.  With no rendition it
\* returns false at once.  Otherwise tryDisplayCfi awaits book.ready: when
\* that has settled, display(cfi) is called in the same turn (pc "direct"),
\* else the call waits for it (pc "ready").
NewTask(req, cfi, r, ready) ==
    [req |-> req, cfi |-> cfi, r |-> r, pc |-> IF ready THEN "direct" ELSE "ready"]

\* The callback with the test of ok left out: the pending request is kept.
AfterJump_Keep(ok, pending) == pending

\* .then((ok) => { if (ok) pendingJumpRef.current = null; })
AfterJump(ok, pending) == IF ok THEN <<>> ELSE pending

\* renderReader without its last line: the field keeps the target.
ConsumeJump_Keep(jumpCfiRange) == jumpCfiRange

\* this.jumpCfiRange = null, the last line of renderReader
ConsumeJump(jumpCfiRange) == <<>>

\* What a render passed: cause is "jump" when the render was made for a
\* request that came with it, "held" for the render of onLoadFile with no
\* request of its own, "none" for a render made for another reason; passed
\* is the jumpCfiRange prop, started tells whether displayJumpCfi got as
\* far as calling display() or waiting for book.ready.
Handover(cause, passed, tasksBefore, tasksAfter) ==
    [cause |-> cause, passed |-> passed, started |-> tasksAfter # tasksBefore]

\* The jump effect without its first line: a render that passes no target
\* overwrites the pending request.
EffectPending_Assign(jumpCfiRange, pending) == jumpCfiRange

\* The jump effect on pendingJumpRef.current:
\* if (!jumpCfiRange) return; pendingJumpRef.current = jumpCfiRange;
EffectPending(jumpCfiRange, pending) ==
    IF jumpCfiRange = <<>> THEN pending ELSE jumpCfiRange

\* EpubView.getHighlightsKey:
\* list.map((h) => `${h.cfiRange}|${h.sourceFile.path}`).join("\n")
RECURSIVE JoinLines(_, _)
JoinLines(lines, i) ==
    IF i > Len(lines) THEN <<>>
    ELSE IF i = Len(lines) THEN lines[i]
    ELSE lines[i] \o <<10>> \o JoinLines(lines, i + 1)

getHighlightsKey(list) ==
    JoinLines([i \in 1..Len(list) |-> list[i].cfiRange \o <<124>> \o list[i].sourceFile], 1)

(***************************************************************************)
(* renderReader() once the file is loaded: ReactDOM.render with the view's *)
(* jumpCfiRange and highlights as props, the effects of that render, and   *)
(* the view's this.jumpCfiRange = null.                                    *)
(*  - the jump effect runs on the first render and when the prop changed;  *)
(*  - onOpenNote is a new closure on every renderReader, so                *)
(*    applyBacklinkHighlights is new and both effects that depend on it    *)
(*    run again: the pending run() is cancelled and a new one started, and *)
(*    the "rendered" subscription is renewed, calling handleRendered at    *)
(*    once when the rendition has contents.                                *)
(***************************************************************************)
RenderReader(jump, list) ==
    LET effectRuns == ~mounted \/ jump # propJump
        jumpEffect == effectRuns /\ jump # <<>>
        q == reqCount + 1
        r == renditionRef
        ready == r # 0 /\ readySettled[r]
        h0 == {[ann |-> annotations, added |-> addedBacklinkCfisRef, log |-> applyLog]}
        h1 == ApplyIf(r # 0 /\ hasContents[r], h0, r, list)
        h2 == ApplyIf(ready, h1, r, list)
    IN  /\ jumpEffect => reqCount < MaxJumps
        /\ viewJump' = ConsumeJump(jump)
        /\ mounted' = TRUE
        /\ propJump' = jump
        /\ propHighlights' = list
        /\ highlightsRef' = list
        /\ IF jumpEffect
           THEN /\ pendingJumpRef' = EffectPending(jump, pendingJumpRef)
                /\ reqCount' = q
                /\ pendingReq' = q
                /\ reqTarget' = [reqTarget EXCEPT ![q] = jump]
                /\ jumpTasks' = IF r = 0 THEN jumpTasks
                                ELSE jumpTasks \cup {NewTask(q, jump, r, ready)}
                /\ directAttempts' = IF ready THEN [directAttempts EXCEPT ![q] = @ + 1]
                                     ELSE directAttempts
           ELSE /\ pendingJumpRef' = IF effectRuns
                                      THEN EffectPending(jump, pendingJumpRef)
                                      ELSE pendingJumpRef
                /\ UNCHANGED <<reqCount, pendingReq, reqTarget, jumpTasks,
                               directAttempts>>
        /\ hlRun' = IF r # 0 /\ ~ready THEN [active |-> TRUE, r |-> r, list |-> list]
                    ELSE NoRun
        /\ \E h \in h2 :
              /\ WithinAnnotationBound(h.ann)
              /\ annotations' = h.ann
              /\ addedBacklinkCfisRef' = h.added
              /\ applyLog' = h.log
        /\ UNCHANGED <<renditionRef, readySettled, hasContents, displayed,
                       fallbackAttempts, lastSettled>>

\* What a jump request carries: state.cfi64, or state.subpath.
NoEState == [cfi64 |-> <<>>, subpath |-> <<>>]
EStates ==
    {[cfi64 |-> tok, subpath |-> <<>>] : tok \in JumpTokens}
        \cup {[cfi64 |-> <<>>, subpath |-> HashCfi64 \o base64UrlEncode(TargetRange)]}

\* state.subpath.match(/#?cfi64=([A-Za-z0-9_-]+)/): the first "cfi64=" that a
\* token character follows.
RECURSIVE SubpathToken(_, _)
SubpathToken(s, i) ==
    IF i > Len(s) THEN <<>>
    ELSE IF StartsWithAt(s, i, Tail(HashCfi64)) /\ TokenRun(s, i + Len(HashCfi64) - 1) # <<>>
         THEN TokenRun(s, i + Len(HashCfi64) - 1)
         ELSE SubpathToken(s, i + 1)

\* The token setEphemeralState hands to handleJumpFromCfi64; <<>> when none.
EStateToken(state) ==
    IF state.cfi64 # <<>> THEN state.cfi64 ELSE SubpathToken(state.subpath, 1)

\* handleJumpFromCfi64: the decoded target, <<>> when there is no token or
\* base64UrlDecode throws (the catch ignores it).
handleJumpFromCfi64(encoded) ==
    IF encoded = <<>> THEN <<>>
    ELSE LET decoded == IF encoded \in JumpTokens THEN DecodedToken[encoded]
                        ELSE base64UrlDecode(encoded)
         IN  IF decoded.ok THEN decoded.value ELSE <<>>

JumpTargetOf(state) == handleJumpFromCfi64(EStateToken(state))

\* onLoadFile: the component is mounted afresh.  With a cfi64 in the leaf's
\* ephemeral state, handleJumpFromCfi64 renders once with the target and
\* onLoadFile renders again, with no target; a request received before the
\* load is still in this.jumpCfiRange and goes out with the first render.
LoadFile(state, list) ==
    LET target == handleJumpFromCfi64(state.cfi64)
        jump == IF target # <<>> THEN target ELSE viewJump
    IN  /\ ~fileLoaded
        /\ ~unloaded
        /\ fileLoaded' = TRUE
        /\ viewHighlights' = list
        /\ viewJump' = ConsumeJump(jump)
        /\ handover' = Handover(IF target # <<>> THEN "jump" ELSE "held", jump,
                                jumpTasks, jumpTasks)
        /\ UNCHANGED <<unloaded, delivery, refreshLog>>
        /\ mounted' = TRUE
        /\ propJump' = IF target # <<>> THEN <<>> ELSE jump
        /\ propHighlights' = list
        /\ highlightsRef' = list
        /\ IF jump # <<>>
           THEN /\ pendingJumpRef' = IF target # <<>>
                                      THEN EffectPending(<<>>, EffectPending(jump, pendingJumpRef))
                                      ELSE EffectPending(jump, pendingJumpRef)
                /\ reqCount' = reqCount + 1
                /\ pendingReq' = reqCount + 1
                /\ reqTarget' = [reqTarget EXCEPT ![reqCount + 1] = jump]
           ELSE UNCHANGED <<pendingJumpRef, reqCount, pendingReq, reqTarget>>
        /\ UNCHANGED <<renditionRef, jumpTasks, readySettled, displayed, directAttempts,
                       fallbackAttempts, lastSettled>>
        /\ UNCHANGED <<addedBacklinkCfisRef, hlRun, hasContents, annotations, applyLog>>
        /\ UNCHANGED <<codecVars, resolverVars, progressVars, parserVars, capVars>>

\* setEphemeralState -> handleJumpFromCfi64 -> renderReader, which returns at
\* once while the file is not loaded.  A token that does not decode is
\* ignored: nothing changes.
SetEphemeralState(state) ==
    LET target == JumpTargetOf(state)
    IN  /\ reqCount < MaxJumps
        /\ ~unloaded
        /\ target # <<>>
        /\ IF fileLoaded
           THEN /\ RenderReader(target, viewHighlights)
                /\ handover' = Handover("jump", target, jumpTasks, jumpTasks')
                /\ UNCHANGED <<fileLoaded, viewHighlights>>
           ELSE /\ viewJump' = target
                /\ UNCHANGED <<fileLoaded, viewHighlights, handover, jumpVars,
                               highlightVars>>
        /\ UNCHANGED <<unloaded, refreshLog>>
        /\ delivery' = [target |-> target,
                        attached |-> fileLoaded /\ renditionRef # 0,
                        repeated |-> fileLoaded /\ mounted /\ target = propJump,
                        started |-> \E t \in jumpTasks' : t \notin jumpTasks /\ t.cfi = target]
        /\ UNCHANGED <<codecVars, resolverVars, progressVars, parserVars, capVars>>

\* renderReader() for another reason (a settings change).
Rerender ==
    /\ fileLoaded
    /\ ~unloaded
    /\ RenderReader(viewJump, viewHighlights)
    /\ handover' = Handover("none", viewJump, jumpTasks, jumpTasks')
    /\ UNCHANGED <<fileLoaded, viewHighlights, unloaded, delivery, refreshLog>>
    /\ UNCHANGED <<codecVars, resolverVars, progressVars, parserVars, capVars>>

\* this.highlightsKey: set with this.highlights, to its key
viewHighlightsKey == getHighlightsKey(viewHighlights)

\* The callback of the refresh timer (150 ms after "resolved"), with list
\* what getHighlightsForBook returns now: it returns at once when the key
\* of the list is the key held, else it takes the list and renders.
RefreshHighlights(list) ==
    /\ fileLoaded
    /\ ~unloaded
    /\ IF getHighlightsKey(list) = viewHighlightsKey
       THEN UNCHANGED <<viewHighlights, viewJump, handover, jumpVars, highlightVars>>
       ELSE /\ viewHighlights' = list
            /\ RenderReader(viewJump, list)
            /\ handover' = Handover("none", viewJump, jumpTasks, jumpTasks')
    /\ refreshLog' = [differs |-> list # viewHighlights,
                      taken |-> viewHighlights' = list,
                      rendered |-> getHighlightsKey(list) # viewHighlightsKey]
    /\ UNCHANGED <<fileLoaded, unloaded, delivery>>
    /\ UNCHANGED <<codecVars, resolverVars, progressVars, parserVars, capVars>>

\* The getRendition callback of ReactReader, and the render that
\* setRendition causes: run() starts for the new rendition.
GetRendition(readyNow) ==
    /\ mounted
    /\ ~unloaded
    /\ renditionRef < MaxRenditions
    /\ LET r == renditionRef + 1
           h0 == {[ann |-> annotations, added |-> <<>>, log |-> NoLog]}
           h1 == ApplyIf(readyNow, h0, r, propHighlights)
       IN  /\ renditionRef' = r
           /\ readySettled' = [readySettled EXCEPT ![r] = readyNow]
           /\ IF pendingJumpRef # <<>>
              THEN /\ jumpTasks' = jumpTasks \cup
                                     {NewTask(pendingReq, pendingJumpRef, r, readyNow)}
                   /\ directAttempts' = IF readyNow
                                        THEN [directAttempts EXCEPT ![pendingReq] = @ + 1]
                                        ELSE directAttempts
              ELSE UNCHANGED <<jumpTasks, directAttempts>>
           /\ hlRun' = IF readyNow THEN NoRun
                       ELSE [active |-> TRUE, r |-> r, list |-> propHighlights]
           /\ \E h \in h1 :
                 /\ WithinAnnotationBound(h.ann)
                 /\ annotations' = h.ann
                 /\ addedBacklinkCfisRef' = h.added
                 /\ applyLog' = h.log
    /\ UNCHANGED <<viewVars, mounted, propJump, propHighlights, highlightsRef,
                   pendingJumpRef, hasContents, displayed, reqCount, pendingReq,
                   reqTarget, fallbackAttempts, lastSettled>>
    /\ UNCHANGED <<codecVars, resolverVars, progressVars, parserVars, capVars>>

\* book.ready of rendition r settles: every displayJumpCfi that awaited it
\* calls display(target), and the run() that awaited it applies its list.
BookReady(r) ==
    /\ r <= renditionRef
    /\ ~readySettled[r]
    /\ readySettled' = [readySettled EXCEPT ![r] = TRUE]
    /\ LET waiting == {t \in jumpTasks : t.r = r /\ t.pc = "ready"}
       IN  /\ jumpTasks' = (jumpTasks \ waiting)
                               \cup {[t EXCEPT !.pc = "direct"] : t \in waiting}
           /\ directAttempts' =
                  [q \in Requests |->
                      directAttempts[q] + Cardinality({t \in waiting : t.req = q})]
    /\ LET h0 == {[ann |-> annotations, added |-> addedBacklinkCfisRef, log |-> applyLog]}
           h1 == ApplyIf(hlRun.active /\ hlRun.r = r, h0, r, hlRun.list)
       IN  \E h \in h1 :
              /\ WithinAnnotationBound(h.ann)
              /\ annotations' = h.ann
              /\ addedBacklinkCfisRef' = h.added
              /\ applyLog' = h.log
    /\ hlRun' = IF hlRun.active /\ hlRun.r = r THEN NoRun ELSE hlRun
    /\ UNCHANGED <<viewVars, mounted, propJump, propHighlights, highlightsRef,
                   renditionRef, pendingJumpRef, hasContents, displayed, reqCount,
                   pendingReq, reqTarget, fallbackAttempts, lastSettled>>
    /\ UNCHANGED <<codecVars, resolverVars, progressVars, parserVars, capVars>>

\* The rendition's "rendered" event: handleRendered.
Rendered(r) ==
    /\ r # 0
    /\ r = renditionRef
    /\ ~unloaded
    /\ hasContents' = [hasContents EXCEPT ![r] = TRUE]
    /\ \E h \in ApplySet([ann |-> annotations, added |-> addedBacklinkCfisRef,
                          log |-> applyLog], r, highlightsRef) :
          /\ WithinAnnotationBound(h.ann)
          /\ annotations' = h.ann
          /\ addedBacklinkCfisRef' = h.added
          /\ applyLog' = h.log
    /\ UNCHANGED <<viewVars, jumpVars, propHighlights, highlightsRef, hlRun>>
    /\ UNCHANGED <<codecVars, resolverVars, progressVars, parserVars, capVars>>

\* The run() that a cleanup has cancelled goes on waiting and applies.
CleanupRun_Keep(run) == run

\* The cleanup of the highlights effect: cancelled = true, so the run()
\* that awaits book.ready returns without applying.
CleanupRun(run) == NoRun

\* EpubView.onunload: ReactDOM.unmountComponentAtNode.  The cleanups of
\* the effects run: the pending run() is cancelled and the handlers of the
\* rendition are taken off.  Calls of display() in flight go on.
Unload ==
    /\ mounted
    /\ ~unloaded
    /\ unloaded' = TRUE
    /\ hlRun' = CleanupRun(hlRun)
    /\ UNCHANGED <<fileLoaded, viewJump, viewHighlights, delivery, refreshLog, handover>>
    /\ UNCHANGED <<jumpVars, propHighlights, addedBacklinkCfisRef, highlightsRef,
                   hasContents, annotations, applyLog>>
    /\ UNCHANGED <<codecVars, resolverVars, progressVars, parserVars, capVars>>

\* The promise of a display() call settles.  A rejected display(target) is
\* followed by display(start anchor) when getRangeStartCfi yields one that
\* differs from the target; whatever settles last goes to the .then callback.
DisplaySettles(t, ok) ==
    /\ t \in jumpTasks
    /\ t.pc \in {"direct", "fallback"}
    /\ LET fallback == getRangeStartCfi(t.cfi)
           shown == IF t.pc = "direct" THEN t.cfi ELSE fallback
           goesOn == t.pc = "direct" /\ ~ok /\ fallback # <<>> /\ fallback # t.cfi
       IN  /\ displayed' = IF ok THEN [displayed EXCEPT ![t.r] = shown] ELSE displayed
           /\ jumpTasks' = IF goesOn
                           THEN (jumpTasks \ {t}) \cup {[t EXCEPT !.pc = "fallback"]}
                           ELSE jumpTasks \ {t}
           /\ fallbackAttempts' = IF goesOn THEN [fallbackAttempts EXCEPT ![t.req] = @ + 1]
                                  ELSE fallbackAttempts
           /\ pendingJumpRef' = IF goesOn THEN pendingJumpRef
                                ELSE AfterJump(ok, pendingJumpRef)
           /\ lastSettled' = [req |-> t.req, r |-> t.r, kind |-> t.pc, ok |-> ok,
                              done |-> ~goesOn, cfi |-> t.cfi]
    /\ UNCHANGED <<viewVars, mounted, propJump, renditionRef, readySettled, reqCount,
                   pendingReq, reqTarget, directAttempts>>
    /\ UNCHANGED highlightVars
    /\ UNCHANGED <<codecVars, resolverVars, progressVars, parserVars, capVars>>

JumpNext ==
    \/ \E state \in EStates \cup {NoEState} : LoadFile(state, <<>>)
    \/ \E state \in EStates : SetEphemeralState(state)
    \/ Rerender
    \/ \E readyNow \in BOOLEAN : GetRendition(readyNow)
    \/ \E r \in Renditions : BookReady(r)
    \/ \E t \in jumpTasks, ok \in BOOLEAN : DisplaySettles(t, ok)

RefreshNext ==
    \/ \E list \in RefreshLists : LoadFile(NoEState, list)
    \/ \E list \in RefreshLists : RefreshHighlights(list)
    \/ \E readyNow \in BOOLEAN : GetRendition(readyNow)
    \/ \E r \in Renditions : BookReady(r)

ReconcileNext ==
    \/ \E list \in HighlightLists : LoadFile(NoEState, list)
    \/ \E list \in HighlightLists : RefreshHighlights(list)
    \/ Rerender
    \/ \E readyNow \in BOOLEAN : GetRendition(readyNow)
    \/ \E r \in Renditions : BookReady(r)
    \/ \E r \in Renditions : Rendered(r)
    \/ Unload

(***************************************************************************)
(* The progress store and the rename migration (EpubPlugin.ts)             *)
(***************************************************************************)
MaxStoreOps == 2       \* setProgress calls and rename events delivered
MaxTime == 2           \* values Date.now() takes
SaveDelay == 500       \* window.setTimeout(..., 500) in requestSave
MaxSettingsSaves == 1  \* saveSettings is called while fewer writes were made

Slash == 47
Backslash == 92

\* Paths, as code units: "A/x", "A/s/y", "AB/x", "C/x", "x", "valueOf".
PathAx == <<65, 47, 120>>
PathAsy == <<65, 47, 115, 47, 121>>
PathABx == <<65, 66, 47, 120>>
PathCx == <<67, 47, 120>>
PathX == <<120>>
PathValueOf == <<118, 97, 108, 117, 101, 79, 102>>
FilePaths == {PathAx, PathAsy, PathABx, PathCx, PathX, PathValueOf}

\* Folders: "A", "AB", "C", "A/s".
FolderPaths == {<<65>>, <<65, 66>>, <<67>>, <<65, 47, 115>>}

\* What callers of setProgress may pass: a vault path, or the same path
\* written "\A//x".
RawPaths == FilePaths \cup {<<Backslash, 65, Slash, Slash, 120>>}

Locations == {1, 2}
Times == 1..MaxTime

\* normalizePath of the obsidian API, on the code units used here: every run
\* of '/' and '\' becomes one '/', slashes at both ends go, "" becomes "/".
RECURSIVE CollapseSlashes(_, _)
CollapseSlashes(s, i) ==
    IF i > Len(s) THEN <<>>
    ELSE IF s[i] \in {Slash, Backslash}
         THEN IF i > 1 /\ s[i - 1] \in {Slash, Backslash}
              THEN CollapseSlashes(s, i + 1)
              ELSE <<Slash>> \o CollapseSlashes(s, i + 1)
         ELSE <<s[i]>> \o CollapseSlashes(s, i + 1)

TrimSlashes(s) ==
    LET a == IF s # <<>> /\ s[1] = Slash THEN Tail(s) ELSE s
    IN  IF a # <<>> /\ a[Len(a)] = Slash THEN SubSeq(a, 1, Len(a) - 1) ELSE a

normalizePath(path) ==
    LET p == TrimSlashes(CollapseSlashes(path, 1))
    IN  IF p = <<>> THEN <<Slash>> ELSE p

\* The path is the key as it comes.
normalizeProgressKey_Raw(bookPath) == bookPath

normalizeProgressKey(bookPath) == normalizePath(bookPath)

\* The store is a plain object: a lookup of a name it does not own goes on
\* to Object.prototype, whose members ("constructor", "toString", "valueOf")
\* are functions, and truthy.
ObjectPrototypeNames ==
    {<<99, 111, 110, 115, 116, 114, 117, 99, 116, 111, 114>>,
     <<116, 111, 83, 116, 114, 105, 110, 103>>,
     PathValueOf}

\* A record setProgress writes, and a member of Object.prototype seen as a
\* value of the store.
BookProgress(location, now) == [builtin |-> FALSE, location |-> location, updatedAt |-> now]
BuiltinMember == [builtin |-> TRUE, location |-> 0, updatedAt |-> 0]
EmptyStore == [k \in {} |-> BuiltinMember]

\* store[key], where <<>> is undefined
Lookup(store, key) ==
    IF key \in DOMAIN store THEN <<store[key]>>
    ELSE IF key \in ObjectPrototypeNames THEN <<BuiltinMember>>
    ELSE <<>>

\* The test !store[key] fails: every value a lookup finds is an object.
Truthy(store, key) == Lookup(store, key) # <<>>

\* getProgress(bookPath): this.data.progress[key]?.location ?? null.  A
\* member of Object.prototype has no location, which gives null as well.
NoProgress == [found |-> FALSE, location |-> 0]
getProgress(store, bookPath) ==
    LET v == Lookup(store, normalizeProgressKey(bookPath))
    IN  IF v = <<>> \/ v[1].builtin THEN NoProgress
        ELSE [found |-> TRUE, location |-> v[1].location]

\* store[key] = value, and delete store[key]
Put(store, key, value) ==
    [k \in DOMAIN store \cup {key} |-> IF k = key THEN value ELSE store[k]]
Delete(store, key) == [k \in (DOMAIN store) \ {key} |-> store[k]]

\* k.startsWith(prefix)
startsWith(k, prefix) == StartsWithAt(k, 1, prefix)

\* normalizePath(path) + "/"
FolderPrefix(path) == normalizePath(path) \o <<Slash>>

\* The destination is taken as occupied, whatever it holds.
DestinationOccupied_Always(next, moved) == TRUE

\* The destination is taken as free, whatever it holds.
DestinationOccupied_Never(next, moved) == FALSE

\* if (!next[moved]) ...
DestinationOccupied(next, moved) == Truthy(next, moved)

\* One turn of the loop over Object.entries(progress), for a key k that
\* starts with oldPrefix.
MoveEntry(next, store, k, oldPrefix, newPrefix) ==
    LET moved == newPrefix \o SubSeq(k, Len(oldPrefix) + 1, Len(k))
        kept == IF DestinationOccupied(next, moved) THEN next ELSE Put(next, moved, store[k])
    IN  Delete(kept, k)

\* The stores the loop can end with, over the orders in which the entries
\* left to visit may come.
RECURSIVE MoveEntries(_, _, _, _, _)
MoveEntries(next, store, todo, oldPrefix, newPrefix) ==
    IF todo = {} THEN {next}
    ELSE UNION {MoveEntries(MoveEntry(next, store, k, oldPrefix, newPrefix), store,
                            todo \ {k}, oldPrefix, newPrefix) : k \in todo}

NoOp == [kind |-> "none", old |-> <<>>, new |-> <<>>]

\* What loadData() may return: nothing of version 1 (the legacy layout),
\* or a version 1 object with a progress map.
StoredProgress ==
    {EmptyStore,
     (PathAx :> BookProgress(1, 1)) @@ (PathAsy :> BookProgress(2, 1)),
     (PathAx :> BookProgress(1, 1)) @@ (PathAsy :> BookProgress(2, 1))
         @@ (PathABx :> BookProgress(1, 2)) @@ (PathCx :> BookProgress(2, 2))}
StoredData ==
    {[version |-> 0, progress |-> EmptyStore]}
        \cup {[version |-> 1, progress |-> s] : s \in StoredProgress}

\* The timer keeps the time it has left.
ArmTimer_Keep(armed, left) == IF armed THEN left ELSE SaveDelay

\* requestSave: clearTimeout of the timer that is armed, and a new timer of
\* 500: the time left until the callback, whatever was left before.
ArmTimer(armed, left) == SaveDelay

ProgressInit ==
    /\ progress = EmptyStore
    /\ saveTimer = FALSE
    /\ saved = EmptyStore
    /\ timerLeft = 0
    /\ notices = 0
    /\ sinceSet = SaveDelay
    /\ burst = 0
    /\ writeLog = <<>>
    /\ storeOps = 0
    /\ prevProgress = EmptyStore
    /\ lastOp = NoOp

\* onload: loadPluginData, before any event is registered.
LoadPluginData(raw) ==
    /\ lastOp = NoOp
    /\ progress' = IF raw.version = 1 THEN raw.progress ELSE EmptyStore
    /\ saved' = raw.progress
    /\ prevProgress' = progress
    /\ lastOp' = [kind |-> "load", old |-> <<>>, new |-> <<>>]
    /\ UNCHANGED <<saveTimer, timerLeft, notices, storeOps, sinceSet, burst, writeLog>>
    /\ UNCHANGED <<codecVars, resolverVars, readerVars, parserVars, capVars>>

\* setProgress(bookPath, location), with Date.now() = now; requestSave arms
\* the timer anew.
SetProgress(bookPath, location, now) ==
    /\ lastOp # NoOp
    /\ storeOps < MaxStoreOps
    /\ progress' = Put(progress, normalizeProgressKey(bookPath), BookProgress(location, now))
    /\ saveTimer' = TRUE
    /\ timerLeft' = ArmTimer(saveTimer, timerLeft)
    /\ storeOps' = storeOps + 1
    /\ prevProgress' = progress
    /\ lastOp' = [kind |-> "set", old |-> bookPath, new |-> bookPath]
    /\ sinceSet' = 0
    /\ burst' = IF saveTimer /\ sinceSet < SaveDelay THEN burst + 1 ELSE 1
    /\ UNCHANGED <<saved, notices, writeLog>>
    /\ UNCHANGED <<codecVars, resolverVars, readerVars, parserVars, capVars>>

\* The vault's rename event for a file.
RenameFile(oldPath, newPath) ==
    LET oldKey == normalizeProgressKey(oldPath)
        newKey == normalizeProgressKey(newPath)
        copied == IF Truthy(progress, oldKey) /\ ~Truthy(progress, newKey)
                  THEN Put(progress, newKey, Lookup(progress, oldKey)[1])
                  ELSE progress
    IN  /\ lastOp # NoOp
        /\ storeOps < MaxStoreOps
        /\ oldPath # newPath
        /\ IF Truthy(copied, oldKey)
           THEN /\ progress' = Delete(copied, oldKey)
                /\ saveTimer' = TRUE
                /\ timerLeft' = ArmTimer(saveTimer, timerLeft)
           ELSE /\ progress' = copied
                /\ UNCHANGED <<saveTimer, timerLeft>>
        /\ storeOps' = storeOps + 1
        /\ prevProgress' = progress
        /\ lastOp' = [kind |-> "file", old |-> oldPath, new |-> newPath]
        /\ UNCHANGED <<saved, notices, sinceSet, burst, writeLog>>
        /\ UNCHANGED <<codecVars, resolverVars, readerVars, parserVars, capVars>>

\* A folder is not moved into itself, nor onto a folder that holds it.
Apart(oldPath, newPath) ==
    /\ ~startsWith(FolderPrefix(newPath), FolderPrefix(oldPath))
    /\ ~startsWith(FolderPrefix(oldPath), FolderPrefix(newPath))

\* The vault's rename event for a folder.
RenameFolder(oldPath, newPath) ==
    LET oldPrefix == FolderPrefix(oldPath)
        newPrefix == FolderPrefix(newPath)
        todo == {k \in DOMAIN progress : startsWith(k, oldPrefix)}
    IN  /\ lastOp # NoOp
        /\ storeOps < MaxStoreOps
        /\ Apart(oldPath, newPath)
        /\ IF todo # {}
           THEN /\ progress' \in MoveEntries(progress, progress, todo, oldPrefix, newPrefix)
                /\ saveTimer' = TRUE
                /\ timerLeft' = ArmTimer(saveTimer, timerLeft)
           ELSE UNCHANGED <<progress, saveTimer, timerLeft>>
        /\ storeOps' = storeOps + 1
        /\ prevProgress' = progress
        /\ lastOp' = [kind |-> "folder", old |-> oldPath, new |-> newPath]
        /\ UNCHANGED <<saved, notices, sinceSet, burst, writeLog>>
        /\ UNCHANGED <<codecVars, resolverVars, readerVars, parserVars, capVars>>

\* Time goes by; a timer that is due fires before it goes on.
Elapse(d) ==
    /\ saveTimer => d <= timerLeft
    /\ saveTimer \/ sinceSet < SaveDelay
    /\ timerLeft' = IF saveTimer THEN timerLeft - d ELSE timerLeft
    /\ sinceSet' = IF sinceSet + d < SaveDelay THEN sinceSet + d ELSE SaveDelay
    /\ UNCHANGED <<progress, saveTimer, saved, notices, storeOps, prevProgress, lastOp,
                   burst, writeLog>>
    /\ UNCHANGED <<codecVars, resolverVars, readerVars, parserVars, capVars>>

\* The write forgets the store: it carries no record.
JsonStored_Nothing(store) == EmptyStore

\* What saveData(this.data) stores of the progress map: JSON.stringify
\* leaves out a member whose value is a function.
JsonStored(store) == [k \in {j \in DOMAIN store : ~store[j].builtin} |-> store[k]]

\* The 500 ms timer of requestSave fires: savePluginData writes the store,
\* or fails, and .catch(() => {}) drops the failure: no notice is shown.
SaveTimerFires(written) ==
    /\ saveTimer
    /\ timerLeft = 0
    /\ saveTimer' = FALSE
    /\ saved' = IF written THEN JsonStored(progress) ELSE saved
    /\ writeLog' = Append(writeLog, IF written THEN "written" ELSE "failed")
    /\ notices' = notices
    /\ UNCHANGED <<progress, timerLeft, storeOps, prevProgress, lastOp, sinceSet, burst>>
    /\ UNCHANGED <<codecVars, resolverVars, readerVars, parserVars, capVars>>

\* saveSettings (from the settings tab): savePluginData at once, with the
\* timer of requestSave left as it is.
SaveSettings(written) ==
    /\ lastOp # NoOp
    /\ Len(writeLog) < MaxSettingsSaves
    /\ saved' = IF written THEN JsonStored(progress) ELSE saved
    /\ writeLog' = Append(writeLog, IF written THEN "written" ELSE "failed")
    /\ UNCHANGED <<progress, saveTimer, timerLeft, notices, storeOps, prevProgress, lastOp,
                   sinceSet, burst>>
    /\ UNCHANGED <<codecVars, resolverVars, readerVars, parserVars, capVars>>

ProgressNext ==
    \/ \E raw \in StoredData : LoadPluginData(raw)
    \/ \E bookPath \in RawPaths, location \in Locations, now \in Times :
          SetProgress(bookPath, location, now)
    \/ \E oldPath \in FilePaths, newPath \in FilePaths : RenameFile(oldPath, newPath)
    \/ \E oldPath \in FolderPaths, newPath \in FolderPaths : RenameFolder(oldPath, newPath)

\* The store with time going by, in steps shorter than the delay, and the
\* timer of requestSave firing.
ElapseSteps == {SaveDelay \div 5, (2 * SaveDelay) \div 5, SaveDelay}
BurstPaths == {PathAx, <<Backslash, 65, Slash, Slash, 120>>}

\* The store with its writes: positions set, the renames that migrate a
\* record (also one whose old name is a member of Object.prototype), time
\* going by, the timer firing and the settings being saved.
PersistNext ==
    \/ \E raw \in StoredData : LoadPluginData(raw)
    \/ \E bookPath \in {PathAx, PathCx}, location \in Locations, now \in Times :
          SetProgress(bookPath, location, now)
    \/ \E oldPath \in {PathAx, PathValueOf} : RenameFile(oldPath, PathX)
    \/ RenameFolder(<<65>>, <<67>>)
    \/ \E d \in ElapseSteps : Elapse(d)
    \/ \E written \in BOOLEAN : SaveTimerFires(written)
    \/ \E written \in BOOLEAN : SaveSettings(written)

DebounceNext ==
    \/ \E raw \in StoredData : LoadPluginData(raw)
    \/ \E bookPath \in BurstPaths, location \in Locations, now \in Times :
          SetProgress(bookPath, location, now)
    \/ \E d \in ElapseSteps : Elapse(d)
    \/ \E written \in BOOLEAN : SaveTimerFires(written)

(***************************************************************************)
(* parseEpubCfi64Link (utils.ts)                                           *)
(***************************************************************************)
Percent == 37
Hash == 35

\* The texts a link is put together from: what stands for the path,
PathPieces ==
    {<<>>,                                                             \* ""
     <<98, 46, 101, 112, 117, 98>>,                                    \* "b.epub"
     <<66, 46, 69, 80, 85, 66>>,                                       \* "B.EPUB"
     <<100, 47, 98, 46, 101, 112, 117, 98>>,                           \* "d/b.epub"
     <<98, 46, 116, 120, 116>>,                                        \* "b.txt"
     <<98, 37, 50, 69, 101, 112, 117, 98>>,                            \* "b%2Eepub"
     <<37, 46, 101, 112, 117, 98>>,                                    \* "%.epub"
     <<98, 37, 122, 122, 46, 101, 112, 117, 98>>,                      \* "b%zz.epub"
     <<37, 69, 52, 37, 66, 56, 37, 65, 68, 46, 101, 112, 117, 98>>,    \* "%E4%B8%AD.epub"
     <<37, 69, 52, 37, 66, 56, 46, 101, 112, 117, 98>>}                \* "%E4%B8.epub"

\* what follows it,
HashPieces ==
    {<<>>,                                                             \* ""
     <<35>>,                                                           \* "#"
     <<35, 99, 102, 105, 54, 52, 61, 81, 81>>,                         \* "#cfi64=QQ"
     <<35, 99, 102, 105, 54, 52, 61>>,                                 \* "#cfi64="
     <<35, 120, 35, 99, 102, 105, 54, 52, 61, 81, 81>>,                \* "#x#cfi64=QQ"
     <<35, 120, 99, 102, 105, 54, 52, 61, 81, 45, 95, 38, 121>>,       \* "#xcfi64=Q-_&y"
     <<35, 99, 102, 105, 54, 52, 61, 81, 81, 35, 99, 102, 105, 54, 52, 61, 81, 82>>,\* "#cfi64=QQ#cfi64=QR"
     <<35, 99, 102, 105, 54, 52, 61, 33, 99, 102, 105, 54, 52, 61, 81, 82>>}\* "#cfi64=!cfi64=QR"

\* and what may stand before both.
LinkPrefixes ==
    {<<>>,                                                             \* ""
     <<111, 98, 115, 105, 100, 105, 97, 110, 58, 47, 47, 111, 112, 101, 110, 63, 102, 105, 108, 101, 61>>,\* "obsidian://open?file="
     <<111, 98, 115, 105, 100, 105, 97, 110, 58, 47, 47, 111, 112, 101, 110, 63, 118, 97, 117, 108, 116, 61, 118, 38, 102, 105, 108, 101, 61>>,\* "obsidian://open?vault=v&file="
     <<111, 98, 115, 105, 100, 105, 97, 110, 58, 47, 47, 111, 112, 101, 110, 63, 118, 97, 117, 108, 116, 61, 118>>,\* "obsidian://open?vault=v"
     <<111, 98, 115, 105, 100, 105, 97, 110, 58, 47, 47, 111, 124, 112, 63, 102, 105, 108, 101, 61>>}\* "obsidian://o|p?file="

LinkTexts ==
    {pre \o path \o hash : pre \in LinkPrefixes, path \in PathPieces, hash \in HashPieces}

\* "obsidian://open?file="
OpenFilePrefix ==
    <<111, 98, 115, 105, 100, 105, 97, 110, 58, 47, 47, 111, 112, 101, 110, 63, 102, 105, 108, 101, 61>>

ObsidianScheme == <<111, 98, 115, 105, 100, 105, 97, 110, 58, 47, 47>>     \* "obsidian://"
FileParam == <<102, 105, 108, 101>>                                  \* "file"
DotEpub == <<46, 101, 112, 117, 98>>                                 \* ".epub"

\* The place of the first c in s at or after i; 0 when there is none.
RECURSIVE IndexOfFrom(_, _, _)
IndexOfFrom(s, c, i) ==
    IF i > Len(s) THEN 0
    ELSE IF s[i] = c THEN i
    ELSE IndexOfFrom(s, c, i + 1)

\* s.split(c): the pieces of s between the places of c.
RECURSIVE SplitOn(_, _)
SplitOn(s, c) ==
    LET i == IndexOfFrom(s, c, 1)
    IN  IF i = 0 THEN <<s>>
        ELSE <<SubSeq(s, 1, i - 1)>> \o SplitOn(SubSeq(s, i + 1, Len(s)), c)

\* s.split(c, limit): the first limit pieces of s.split(c).
SplitLimit(s, c, limit) ==
    LET all == SplitOn(s, c)
    IN  SubSeq(all, 1, IF Len(all) < limit THEN Len(all) ELSE limit)

HexValue(c) ==
    IF c >= 48 /\ c <= 57 THEN c - 48
    ELSE IF c >= 65 /\ c <= 70 THEN c - 55
    ELSE IF c >= 97 /\ c <= 102 THEN c - 87
    ELSE -1

\* s has "%XX" at k, with two hex digits, and the byte it stands for.
EscapeAt(s, k) ==
    /\ k + 2 <= Len(s)
    /\ s[k] = Percent
    /\ HexValue(s[k + 1]) >= 0
    /\ HexValue(s[k + 2]) >= 0
EscapeByte(s, k) == (16 * HexValue(s[k + 1])) + HexValue(s[k + 2])

\* The octets are the UTF-8 form of one code point.
OneCodePoint(octets) ==
    LET cps == Utf8DecodeFrom(octets, 1, 0, 0, 128, 191)
    IN  Len(cps) = 1 /\ (cps[1] # 65533 \/ octets = <<239, 191, 189>>)

(***************************************************************************)
(* decodeURIComponent(s): [ok, value], ok = FALSE when it throws URIError: *)
(* a '%' that two hex digits do not follow, or escapes whose octets are    *)
(* not the UTF-8 form of a code point.                                     *)
(***************************************************************************)
RECURSIVE decodeURIComponent(_, _)
decodeURIComponent(s, k) ==
    IF k > Len(s) THEN [ok |-> TRUE, value |-> <<>>]
    ELSE IF s[k] # Percent
         THEN LET rest == decodeURIComponent(s, k + 1)
              IN  [ok |-> rest.ok, value |-> <<s[k]>> \o rest.value]
    ELSE IF ~EscapeAt(s, k) THEN [ok |-> FALSE, value |-> <<>>]
    ELSE LET b == EscapeByte(s, k)
             n == IF b < 128 THEN 1
                  ELSE IF b >= 192 /\ b <= 223 THEN 2
                  ELSE IF b >= 224 /\ b <= 239 THEN 3
                  ELSE IF b >= 240 /\ b <= 247 THEN 4
                  ELSE 0
         IN  IF n = 0 \/ \E j \in 1..(n - 1) : ~EscapeAt(s, k + (3 * j))
             THEN [ok |-> FALSE, value |-> <<>>]
             ELSE LET octets == [j \in 1..n |-> EscapeByte(s, k + (3 * (j - 1)))]
                      rest == decodeURIComponent(s, k + (3 * n))
                  IN  IF ~OneCodePoint(octets) THEN [ok |-> FALSE, value |-> <<>>]
                      ELSE [ok |-> rest.ok,
                            value |-> ToCodeUnits(Utf8DecodeFrom(octets, 1, 0, 0, 128, 191))
                                          \o rest.value]

\* Escapes resolved where they are well-formed, '+' read as a space, the
\* octets decoded as UTF-8 with U+FFFD for what is ill-formed: what
\* URLSearchParams does to a name and to a value (of ASCII text).
RECURSIVE FormOctets(_, _)
FormOctets(s, k) ==
    IF k > Len(s) THEN <<>>
    ELSE IF EscapeAt(s, k) THEN <<EscapeByte(s, k)>> \o FormOctets(s, k + 3)
    ELSE IF s[k] = 43 THEN <<32>> \o FormOctets(s, k + 1)
    ELSE <<s[k]>> \o FormOctets(s, k + 1)

FormDecode(s) == ToCodeUnits(Utf8DecodeFrom(FormOctets(s, 1), 1, 0, 0, 128, 191))

\* u.searchParams.get(name): the value of the first pair of that name; <<>>
\* when there is none (null) or when it is empty.
RECURSIVE SearchParamsGet(_, _, _)
SearchParamsGet(pairs, i, name) ==
    IF i > Len(pairs) THEN <<>>
    ELSE LET eq == IndexOfFrom(pairs[i], 61, 1)
             n == IF eq = 0 THEN pairs[i] ELSE SubSeq(pairs[i], 1, eq - 1)
             v == IF eq = 0 THEN <<>> ELSE SubSeq(pairs[i], eq + 1, Len(pairs[i]))
         IN  IF pairs[i] # <<>> /\ FormDecode(n) = name THEN FormDecode(v)
             ELSE SearchParamsGet(pairs, i + 1, name)

\* Code points the URL parser does not take in the host of "obsidian://host".
ForbiddenHostCodePoints == {32, 60, 62, 91, 92, 93, 94, 124}

(***************************************************************************)
(* new URL(raw) for raw = "obsidian://host...": ok = FALSE when it throws, *)
(* query = what stands between the first '?' and the '#', hash = the '#'   *)
(* and what follows it, "" when nothing follows.  The texts of the model   *)
(* hold nothing the parser would escape in a query or a fragment.          *)
(***************************************************************************)
UrlParse(raw) ==
    LET rest == SubSeq(raw, Len(ObsidianScheme) + 1, Len(raw))
        h == IndexOfFrom(rest, Hash, 1)
        beforeHash == IF h = 0 THEN rest ELSE SubSeq(rest, 1, h - 1)
        fragment == IF h = 0 THEN <<>> ELSE SubSeq(rest, h + 1, Len(rest))
        q == IndexOfFrom(beforeHash, 63, 1)
        beforeQuery == IF q = 0 THEN beforeHash ELSE SubSeq(beforeHash, 1, q - 1)
        s == IndexOfFrom(beforeQuery, Slash, 1)
        host == IF s = 0 THEN beforeQuery ELSE SubSeq(beforeQuery, 1, s - 1)
    IN  [ok |-> \A i \in 1..Len(host) : host[i] \notin ForbiddenHostCodePoints,
         query |-> IF q = 0 THEN <<>> ELSE SubSeq(beforeHash, q + 1, Len(beforeHash)),
         hash |-> IF fragment = <<>> THEN <<>> ELSE <<Hash>> \o fragment]

\* The text the "obsidian://" branch leaves in raw: the file parameter,
\* decoded, and the hash; the text itself when the parameter is missing or
\* something in the try block throws.
DeepLinkRaw(href) ==
    LET u == UrlParse(href)
        fileParam == SearchParamsGet(SplitOn(u.query, 38), 1, FileParam)
        decoded == decodeURIComponent(fileParam, 1)
    IN  IF u.ok /\ fileParam # <<>> /\ decoded.ok THEN decoded.value \o u.hash ELSE href

\* s.toLowerCase(), for ASCII text
ToLowerCase(s) == [i \in 1..Len(s) |-> IF s[i] >= 65 /\ s[i] <= 90 THEN s[i] + 32 ELSE s[i]]

\* s.endsWith(suffix)
endsWith(s, suffix) ==
    Len(s) >= Len(suffix) /\ SubSeq(s, Len(s) - Len(suffix) + 1, Len(s)) = suffix

\* hashRaw.match(/cfi64=([A-Za-z0-9_-]+)/): the token after the first
\* "cfi64=" that a token character follows; <<>> when there is none.
Cfi64KeyToken(hashRaw) == SubpathToken(hashRaw, 1)

NoLink == [threw |-> FALSE, found |-> FALSE, path |-> <<>>, cfi64 |-> <<>>]
Thrown == [threw |-> TRUE, found |-> FALSE, path |-> <<>>, cfi64 |-> <<>>]

\* parseEpubCfi64Link(hrefOrDataHref): found = FALSE is null, threw = TRUE
\* an exception that leaves the function.
parseEpubCfi64Link(hrefOrDataHref) ==
    IF hrefOrDataHref = <<>> THEN NoLink
    ELSE LET raw == IF StartsWithAt(hrefOrDataHref, 1, ObsidianScheme)
                    THEN DeepLinkRaw(hrefOrDataHref)
                    ELSE hrefOrDataHref
             pieces == SplitLimit(raw, Hash, 2)
             hashRaw == IF Len(pieces) >= 2 THEN pieces[2] ELSE <<>>
             pathPart == decodeURIComponent(pieces[1], 1)
         IN  IF ~pathPart.ok THEN Thrown
             ELSE IF ~endsWith(ToLowerCase(pathPart.value), DotEpub) THEN NoLink
             ELSE IF hashRaw = <<>> THEN NoLink
             ELSE IF Cfi64KeyToken(hashRaw) = <<>> THEN NoLink
             ELSE [threw |-> FALSE, found |-> TRUE,
                   path |-> normalizePath(pathPart.value),
                   cfi64 |-> Cfi64KeyToken(hashRaw)]

ParserInit ==
    /\ pStage = "idle"
    /\ pInput = <<>>
    /\ pResult = NoLink
    /\ pPlain = <<>>
    /\ pPlainResult = NoLink

\* A caller has a link text at hand,
ParserPick(text) ==
    /\ pStage = "idle"
    /\ pStage' = "input"
    /\ pInput' = text
    /\ UNCHANGED <<pResult, pPlain, pPlainResult>>
    /\ UNCHANGED <<codecVars, resolverVars, readerVars, progressVars, capVars>>

\* and calls parseEpubCfi64Link with it.
ParserCall ==
    /\ pStage = "input"
    /\ pStage' = "done"
    /\ pResult' = parseEpubCfi64Link(pInput)
    /\ UNCHANGED <<pInput, pPlain, pPlainResult>>
    /\ UNCHANGED <<codecVars, resolverVars, readerVars, progressVars, capVars>>

ParserNext ==
    \/ \E text \in LinkTexts : ParserPick(text)
    \/ ParserCall

(***************************************************************************)
(* A deep link and the plain link of the same file and fragment.  The deep *)
(* link carries the path as encodeURIComponent leaves it: the letters, the *)
(* digits and - _ . ! ~ * ' ( ) as they are, every other code point as the *)
(* "%XX" of its UTF-8 octets.                                              *)
(***************************************************************************)
HexDigit(n) == IF n < 10 THEN 48 + n ELSE 55 + n

Unreserved(c) ==
    \/ IsTokenChar(c)
    \/ c \in {46, 33, 126, 42, 39, 40, 41}

RECURSIVE EscapeOctets(_, _)
EscapeOctets(octets, i) ==
    IF i > Len(octets) THEN <<>>
    ELSE (IF Unreserved(octets[i]) THEN <<octets[i]>>
          ELSE <<Percent, HexDigit(octets[i] \div 16), HexDigit(octets[i] % 16)>>)
             \o EscapeOctets(octets, i + 1)

encodeURIComponent(s) == EscapeOctets(TextEncode(s), 1)

\* File paths: those of PathPieces, taken as names of files, one with a
\* space, one with "%25" in its name, and one in another script.
DeepPaths ==
    PathPieces \cup
        {<<97, 32, 98, 46, 101, 112, 117, 98>>,                        \* "a b.epub"
         <<98, 37, 50, 53, 50, 69, 101, 112, 117, 98>>,                \* "b%252Eepub"
         <<20013, 46, 101, 112, 117, 98>>}                             \* "中.epub"

DeepLinkFor(path, hash) == OpenFilePrefix \o encodeURIComponent(path) \o hash

\* A caller has the two texts for one file and one fragment,
ParserPickPair(path, hash) ==
    /\ pStage = "idle"
    /\ pStage' = "pair"
    /\ pInput' = DeepLinkFor(path, hash)
    /\ pPlain' = path \o hash
    /\ UNCHANGED <<pResult, pPlainResult>>
    /\ UNCHANGED <<codecVars, resolverVars, readerVars, progressVars, capVars>>

\* and calls parseEpubCfi64Link with each.
ParserCallPair ==
    /\ pStage = "pair"
    /\ pStage' = "paired"
    /\ pResult' = parseEpubCfi64Link(pInput)
    /\ pPlainResult' = parseEpubCfi64Link(pPlain)
    /\ UNCHANGED <<pInput, pPlain>>
    /\ UNCHANGED <<codecVars, resolverVars, readerVars, progressVars, capVars>>

DeepLinkNext ==
    \/ \E path \in DeepPaths, hash \in HashPieces : ParserPickPair(path, hash)
    \/ ParserCallPair

(***************************************************************************)
(* applyBacklinkHighlights under lists longer than the cap                 *)
(***************************************************************************)
MaxDescriptors == 100  \* descriptors in the longest list
MaxCalls == 2          \* calls in a row on the one surface

\* The range of the i-th descriptor: "epubcfi(/" i ")" with i as a code unit.
LongRange(i) == Epubcfi \o <<47, 256 + i, 41>>
LongRanges == {LongRange(i) : i \in 1..(MaxDescriptors + 1)}
LongList(n) ==
    [i \in 1..n |-> [cfiRange |-> LongRange(i), sourceFile |-> NoteOrder[1], display |-> <<120>>]]

\* The lists and the adds that fail: lists around the cap, and failures at
\* the ends of what the cap lets through.
ListLens == {0, 2, BacklinkCap - 1, BacklinkCap, BacklinkCap + 1, MaxDescriptors}
Rejections == SUBSET {1, 2, BacklinkCap - 1, BacklinkCap}

CapInit ==
    /\ kStage = "idle"
    /\ kList = <<>>
    /\ kAddOk = <<>>
    /\ kTracked = <<>>
    /\ kSurface = [c \in LongRanges |-> 0]
    /\ kCalls = 0

\* The view has a list, and the surface will reject some adds.
CapPick(n, rejected) ==
    /\ kStage \in {"idle", "done"}
    /\ kCalls < MaxCalls
    /\ kStage' = "input"
    /\ kList' = LongList(n)
    /\ kAddOk' = [i \in 1..n |-> i \notin rejected]
    /\ UNCHANGED <<kTracked, kSurface, kCalls>>
    /\ UNCHANGED <<codecVars, resolverVars, readerVars, progressVars, parserVars>>

\* applyBacklinkHighlights(r, kList); every removal returns, or every one
\* throws.
CapApply(removed) ==
    /\ kStage = "input"
    /\ LET res == applyBacklinkHighlights(kSurface, kTracked, kList,
                                          [i \in 1..Len(kTracked) |-> removed], kAddOk)
       IN  /\ kSurface' = res.ann
           /\ kTracked' = res.added
    /\ kStage' = "done"
    /\ kCalls' = kCalls + 1
    /\ UNCHANGED <<kList, kAddOk>>
    /\ UNCHANGED <<codecVars, resolverVars, readerVars, progressVars, parserVars>>

CapNext ==
    \/ \E n \in ListLens, rejected \in Rejections : CapPick(n, rejected)
    \/ \E removed \in BOOLEAN : CapApply(removed)

Init == CodecInit /\ ResolverInit /\ ReaderInit /\ ProgressInit /\ ParserInit /\ CapInit

SpecCodec == Init /\ [][CodecNext]_vars

SpecResolver == Init /\ [][ResolverNext]_vars

SpecJump == Init /\ [][JumpNext]_vars

SpecReconcile == Init /\ [][ReconcileNext]_vars

SpecProgress == Init /\ [][ProgressNext]_vars

SpecCap == Init /\ [][CapNext]_vars

SpecTokens == Init /\ [][TokenNext]_vars

SpecRefresh == Init /\ [][RefreshNext]_vars

SpecParser == Init /\ [][ParserNext]_vars

SpecDeepLink == Init /\ [][DeepLinkNext]_vars

\* The store and its writes; time does go by and a due timer does fire.
SpecPersist ==
    /\ Init
    /\ [][PersistNext]_vars
    /\ WF_vars(\E d \in ElapseSteps : Elapse(d))
    /\ WF_vars(\E written \in BOOLEAN : SaveTimerFires(written))

\* Time does go by and a due timer does fire.
SpecDebounce ==
    /\ Init
    /\ [][DebounceNext]_vars
    /\ WF_vars(\E d \in ElapseSteps : Elapse(d))
    /\ WF_vars(\E written \in BOOLEAN : SaveTimerFires(written))

(***************************************************************************)
(* C1: for every string s, base64UrlDecode(base64UrlEncode(s)) returns     *)
(* exactly s.                                                              *)
(***************************************************************************)
C1_RoundTrip ==
    cStage = "decoded" => (cOutput.ok /\ cOutput.value = cInput)

(***************************************************************************)
(* C7: getHighlightsForBook(document, N) returns at most N descriptors,    *)
(* for every N, N = 0 included.                                            *)
(***************************************************************************)
C7_AtMostLimit ==
    rStage = "done" => Len(rResult) <= rLimit

(***************************************************************************)
(* C8: deduplication is global across notes.  No two descriptors of one    *)
(* result stem from the same token; and a token that both notes embed in   *)
(* links resolving to the book yields exactly one descriptor (when it      *)
(* decodes and the scan was not cut short by the limit).                   *)
(***************************************************************************)
TokensOfNote(caches, n) ==
    LET occ == ItemOccurrences(caches[n].links \o caches[n].embeds, 1, n, BookPath)
    IN  {occ[i].encoded : i \in 1..Len(occ)}

DescriptorsOf(result, tok) == {i \in 1..Len(result) : result[i].encoded = tok}

C8_GlobalDedup ==
    rStage = "done" =>
        /\ \A i, j \in 1..Len(rResult) :
               i # j => rResult[i].encoded # rResult[j].encoded
        /\ \A tok \in TokensOfNote(rCaches, NoteOrder[1]) \cap TokensOfNote(rCaches, NoteOrder[2]) :
               (base64UrlDecode(tok).ok /\ Len(rResult) < rLimit)
                   => Cardinality(DescriptorsOf(rResult, tok)) = 1

C8_Witness ==
    /\ rStage = "done"
    /\ TokQQ \in TokensOfNote(rCaches, NoteOrder[1]) \cap TokensOfNote(rCaches, NoteOrder[2])
    /\ Len(rResult) >= 2
    /\ Len(rResult) < rLimit
    /\ Cardinality(DescriptorsOf(rResult, TokQQ)) = 1

\* The link texts of note n that resolve to path, links before embeds.
ItemsResolvingTo(caches, n, path) ==
    LET items == caches[n].links \o caches[n].embeds
    IN  {items[i].original : i \in {k \in 1..Len(items) : items[k].dest = path}}

\* tok stands in text right after some "#cfi64=".
OccursAfterKey(text, tok) ==
    \E i \in 1..Len(text) :
        /\ StartsWithAt(text, i, HashCfi64)
        /\ StartsWithAt(text, i + Len(HashCfi64), tok)

\* C17: every descriptor getHighlightsForBook(document) returns comes from a
\* note that resolvedLinks lists for the document, from a link or embed of
\* that note that resolves to the document's very path and whose original
\* text holds the descriptor's token right after "#cfi64=", and its range is
\* what the token decodes to.  A token that stands only in links resolving
\* elsewhere (the book of the same name in another folder, or nothing)
\* yields no descriptor.
C17_ExactTargetOnly ==
    rStage = "done" =>
        /\ \A i \in 1..Len(rResult) :
              LET d == rResult[i]
              IN  /\ d.sourceFile \in NotePaths
                  /\ BookPath \in resolvedLinks(rCaches)[d.sourceFile]
                  /\ \E text \in ItemsResolvingTo(rCaches, d.sourceFile, BookPath) :
                         OccursAfterKey(text, d.encoded)
                  /\ base64UrlDecode(d.encoded).ok
                  /\ d.cfiRange = base64UrlDecode(d.encoded).value
        /\ \A tok \in {TokQQ, TokQR, TokQ, TokQUI} :
              (\A n \in NotePaths : \A text \in ItemsResolvingTo(rCaches, n, BookPath) :
                    ~OccursAfterKey(text, tok))
                  => DescriptorsOf(rResult, tok) = {}

\* The first note links "QQ" to the open book and "QUI" to the book of the
\* same name in the other folder, the second note links only to the other
\* book: one descriptor, of "QQ" from the first note.
C17_Witness ==
    /\ rStage = "done"
    /\ rLimit = DefaultLimit
    /\ \E text \in ItemsResolvingTo(rCaches, NoteOrder[1], OtherBookPath) :
           OccursAfterKey(text, TokQUI)
    /\ ItemsResolvingTo(rCaches, NoteOrder[2], OtherBookPath) # {}
    /\ ItemsResolvingTo(rCaches, NoteOrder[2], BookPath) = {}
    /\ Len(rResult) = 1
    /\ rResult[1].encoded = TokQQ
    /\ rResult[1].sourceFile = NoteOrder[1]
    /\ DescriptorsOf(rResult, TokQUI) = {}
\* The tokens the scan of the index meets, in the order it meets them, and
\* the place where it first meets tok (0 when it never does).
ScanOrder(caches) ==
    LET occ == Occurrences(caches, CandidatesFrom(caches, BookPath, 1), 1, BookPath)
    IN  [i \in 1..Len(occ) |-> occ[i].encoded]

FirstMet(order, tok) ==
    IF \E i \in 1..Len(order) : order[i] = tok
    THEN CHOOSE i \in 1..Len(order) :
             order[i] = tok /\ \A k \in 1..(i - 1) : order[k] # tok
    ELSE 0

\* C18: a token that does not decode costs its own occurrence and nothing
\* else.  The call returns a list; no descriptor stems from a token that
\* does not decode; a descriptor is preceded by the descriptors of all the
\* decodable tokens the scan met before its token; and when the limit did
\* not cut the scan short, every decodable token has its descriptor,
\* whether it stands after a failing token in the same link text, in a
\* later link of the note or in a later note.
C18_FailedDecodeSkipped ==
    rStage = "done" =>
        LET order == ScanOrder(rCaches)
            met == {order[i] : i \in 1..Len(order)}
            good == {tok \in met : base64UrlDecode(tok).ok}
        IN  /\ \A i \in 1..Len(rResult) : rResult[i].encoded \in good
            /\ \A i \in 1..Len(rResult) : \A tok \in good :
                  FirstMet(order, tok) < FirstMet(order, rResult[i].encoded)
                      => \E j \in 1..(i - 1) : rResult[j].encoded = tok
            /\ Len(rResult) < rLimit
                  => \A tok \in good : DescriptorsOf(rResult, tok) # {}

\* "Q" does not decode.  It stands first in a link text of the first note,
\* before "QUI" in the same text; a later link of the note has "QQ" and the
\* second note has "QR": the three of them have their descriptors.
C18_Witness ==
    /\ rStage = "done"
    /\ rLimit = DefaultLimit
    /\ ~base64UrlDecode(TokQ).ok
    /\ Len(ScanOrder(rCaches)) = 4
    /\ ScanOrder(rCaches)[1] = TokQ
    /\ Len(rResult) = 3
    /\ rResult[1].encoded = TokQUI /\ rResult[1].sourceFile = NoteOrder[1]
    /\ rResult[2].encoded = TokQQ /\ rResult[2].sourceFile = NoteOrder[1]
    /\ rResult[3].encoded = TokQR /\ rResult[3].sourceFile = NoteOrder[2]

(***************************************************************************)
(* The reader: highlights and jumps                                        *)
(***************************************************************************)

\* The tracked ranges as a set, and whether a range is tracked twice.
TrackedSet == {addedBacklinkCfisRef[i] : i \in 1..Len(addedBacklinkCfisRef)}
TrackedTwice ==
    \E i, j \in 1..Len(addedBacklinkCfisRef) :
        i # j /\ addedBacklinkCfisRef[i] = addedBacklinkCfisRef[j]

\* C2: after applyBacklinkHighlights has been called twice in a row on the
\* same surface with the same descriptor list, the surface carries exactly
\* one annotation for each range it accepted and never two for any range,
\* and the tracked set is that collection of ranges, none of them twice -
\* also when removals or adds fail.
C2_Idempotent ==
    applyLog.repeat =>
        /\ \A c \in Ranges : annotations[applyLog.r][c] <= 1
        /\ \A c \in applyLog.accepted : annotations[applyLog.r][c] = 1
        /\ TrackedSet = applyLog.accepted
        /\ ~TrackedTwice

\* The display attempts of the held request came to an end on this step.
HeldRequestExhausted ==
    /\ lastSettled' # lastSettled
    /\ lastSettled'.done
    /\ lastSettled'.req = pendingReq
    /\ \A t \in jumpTasks' : t.req # pendingReq

\* C3: when the renderer rejects the target and rejects its start anchor (or
\* there is no fallback to try), no pending jump request is held once the
\* attempts have completed: pendingJumpRef is empty.
C3_IdleAfterRejection ==
    [][(HeldRequestExhausted /\ ~lastSettled'.ok) => pendingJumpRef' = <<>>]_vars

\* C4: over re-renders, re-attachment of the renderer and readiness signals,
\* a jump request gets at most one direct display attempt and at most one
\* fallback attempt, and is not tried again afterwards.
C4_ConsumedOnce ==
    \A q \in Requests : directAttempts[q] <= 1 /\ fallbackAttempts[q] <= 1

\* C5: when display(target) was rejected and display of the start anchor
\* that getRangeStartCfi derives from target is accepted, the surface shows
\* the start anchor and no pending request is held.
C5_FallbackSucceeds ==
    [][(/\ lastSettled' # lastSettled
        /\ lastSettled'.kind = "fallback"
        /\ lastSettled'.ok)
          => /\ displayed'[lastSettled'.r] = getRangeStartCfi(lastSettled'.cfi)
             /\ getRangeStartCfi(lastSettled'.cfi) \notin {<<>>, lastSettled'.cfi}
             /\ pendingJumpRef' = <<>>]_vars

C5_Witness ==
    /\ lastSettled.kind = "fallback"
    /\ lastSettled.ok
    /\ lastSettled.cfi = TargetRange
    /\ displayed[lastSettled.r] = getRangeStartCfi(TargetRange)
    /\ displayed[lastSettled.r] # TargetRange
    /\ pendingJumpRef = <<>>

\* C6: when request B arrived while request A was pending, the completion of
\* A's outstanding display attempts neither clears nor overwrites the
\* pending request held for B.
C6_LatestWins ==
    [][(/\ lastSettled' # lastSettled
        /\ lastSettled'.req < pendingReq
        /\ pendingJumpRef # <<>>)
          => pendingJumpRef' = pendingJumpRef]_vars

(***************************************************************************)
(* The rename migration                                                    *)
(***************************************************************************)

\* The two stores hold the same record, or both none, at key k.
SameAt(before, after, k) ==
    /\ k \in DOMAIN after <=> k \in DOMAIN before
    /\ k \in DOMAIN before => after[k] = before[k]

\* C9: after the rename of a file from old to new, with different keys: if
\* the store held a record at normalize(old), it holds none there now, and
\* normalize(new) holds that record when it held none before and the record
\* it held otherwise, and every other record is as it was; if the store held
\* no record at normalize(old), it is unchanged.
C9_FileRename ==
    lastOp.kind = "file" =>
        LET oldKey == normalizePath(lastOp.old)
            newKey == normalizePath(lastOp.new)
        IN  oldKey # newKey =>
                IF oldKey \in DOMAIN prevProgress
                THEN /\ oldKey \notin DOMAIN progress
                     /\ newKey \in DOMAIN progress
                     /\ progress[newKey] = IF newKey \in DOMAIN prevProgress
                                           THEN prevProgress[newKey]
                                           ELSE prevProgress[oldKey]
                     /\ \A k \in (DOMAIN prevProgress \cup DOMAIN progress) \ {oldKey, newKey} :
                            SameAt(prevProgress, progress, k)
                ELSE progress = prevProgress

\* The key a record at k goes to when the folder old becomes new.
Destination(k, old, new) ==
    normalizePath(new) \o <<Slash>> \o SubSeq(k, Len(normalizePath(old)) + 2, Len(k))

\* k lies under the folder: it starts with the folder's path and a '/'.
Under(k, folder) == StartsWithAt(k, 1, normalizePath(folder) \o <<Slash>>)

\* C10: after the rename of a folder from old to new, no record is left
\* under old + '/'; for every record that was at such a key k, the key
\* new + '/' + suffix holds k's record when it held none before and the
\* record it held otherwise; every record whose key does not start with
\* old + '/' - a key that starts with old and no separator too - is as it
\* was.
C10_FolderRename ==
    lastOp.kind = "folder" =>
        LET sources == {k \in DOMAIN prevProgress : Under(k, lastOp.old)}
        IN  /\ \A k \in DOMAIN progress : ~Under(k, lastOp.old)
            /\ \A k \in sources :
                  LET moved == Destination(k, lastOp.old, lastOp.new)
                  IN  /\ moved \in DOMAIN progress
                      /\ progress[moved] = IF moved \in DOMAIN prevProgress
                                           THEN prevProgress[moved]
                                           ELSE prevProgress[k]
            /\ \A k \in DOMAIN prevProgress \ sources :
                  k \in DOMAIN progress /\ progress[k] = prevProgress[k]
            /\ \A k \in DOMAIN progress \ DOMAIN prevProgress :
                  \E s \in sources : k = Destination(s, lastOp.old, lastOp.new)

\* The folder "A" became "C": "A/x" met the record of "C/x", which stays,
\* "A/s/y" went to "C/s/y", and "AB/x" kept its place.
C10_Witness ==
    /\ lastOp = [kind |-> "folder", old |-> <<65>>, new |-> <<67>>]
    /\ {PathAx, PathAsy, PathABx, PathCx} \subseteq DOMAIN prevProgress
    /\ prevProgress[PathAx] # prevProgress[PathCx]
    /\ DOMAIN progress = {PathABx, PathCx, <<67, 47, 115, 47, 121>>}
    /\ progress[PathCx] = prevProgress[PathCx]
    /\ progress[<<67, 47, 115, 47, 121>>] = prevProgress[PathAsy]
    /\ progress[PathABx] = prevProgress[PathABx]

IsSetStep == storeOps' = storeOps + 1 /\ lastOp'.kind = "set"
IsWriteStep == Len(writeLog') = Len(writeLog) + 1

\* C11: every setProgress call restarts the timer with the full delay; a
\* timer-driven write comes only when the delay has gone by since the last
\* call, so none comes inside a burst; it leaves no timer armed, so one
\* write follows a burst, and what it writes is the store with the last
\* position set; and an armed timer does lead to its write.
C11_Debounce ==
    /\ [][/\ IsSetStep => (saveTimer' /\ timerLeft' = SaveDelay)
          /\ IsWriteStep =>
                /\ sinceSet = SaveDelay
                /\ ~saveTimer'
                /\ writeLog'[Len(writeLog')] = "written" => saved' = progress]_vars
    /\ (saveTimer ~> ~saveTimer)

\* Two calls in a burst, and the one write after it, with the position of
\* the second call.
C11_Witness ==
    /\ burst = 2
    /\ lastOp.kind = "set"
    /\ ~saveTimer
    /\ writeLog = <<"written">>
    /\ sinceSet = SaveDelay
    /\ saved = progress
    /\ normalizePath(lastOp.old) \in DOMAIN prevProgress
    /\ saved[normalizePath(lastOp.old)] # prevProgress[normalizePath(lastOp.old)]

(***************************************************************************)
(* The link parser                                                         *)
(***************************************************************************)

\* C27: a write leaves the store in memory as it is and, when it succeeds,
\* stores every record the store holds at that time, those of earlier
\* failed writes included; a setProgress or a rename that changes the store
\* arms the timer with the full delay; and an armed timer leads to a write
\* attempt unless a further request restarts it.
AllRecordsStored(store, file) ==
    /\ DOMAIN file \subseteq DOMAIN store
    /\ \A k \in DOMAIN store : ~store[k].builtin => (k \in DOMAIN file /\ file[k] = store[k])

WriteCarriesAll ==
    IsWriteStep =>
        /\ progress' = progress
        /\ writeLog'[Len(writeLog')] = "written" => AllRecordsStored(progress, saved')
        /\ writeLog'[Len(writeLog')] = "failed" => saved' = saved

ChangeArmsTimer ==
    (progress' # progress /\ lastOp'.kind # "load") =>
        (saveTimer' /\ timerLeft' = SaveDelay)

FailedWrites == {i \in 1..Len(writeLog) : writeLog[i] = "failed"}

\* C19: a write of the plugin data that fails is shown to the user: for
\* every failed write of the debounced save a notice has been shown.
C19_FailureNoticed ==
    Cardinality(FailedWrites) <= notices

\* C20: in every state of the progress store, after loadPluginData and
\* after any setProgress and rename, every key of the map is its own
\* normalization, so no two keys stand for one normalized path and two
\* spellings of one path get the same answer from getProgress; and a call
\* setProgress(p', location) makes getProgress(p) answer location for every
\* p with the normalization of p', and leaves the answer for every other
\* path as it was.
KeysNormalized ==
    /\ \A k \in DOMAIN progress : normalizePath(k) = k
    /\ \A k1, k2 \in DOMAIN progress : normalizePath(k1) = normalizePath(k2) => k1 = k2
    /\ \A p, q \in RawPaths :
          normalizePath(p) = normalizePath(q) => getProgress(progress, p) = getProgress(progress, q)

SetThenGet ==
    \A bookPath \in RawPaths, location \in Locations, now \in Times :
        SetProgress(bookPath, location, now) =>
            \A p \in RawPaths :
                getProgress(progress', p) =
                    IF normalizePath(p) = normalizePath(bookPath)
                    THEN [found |-> TRUE, location |-> location]
                    ELSE getProgress(progress, p)

C20_OneRecordPerPath == [](KeysNormalized) /\ [][SetThenGet]_vars

\* A store with a record at "A/x" and others beside it; setProgress is
\* called with "\A//x" and another location: the record at "A/x" is
\* replaced and getProgress("A/x") answers the new location.
C20_Witness ==
    /\ lastOp.kind = "set"
    /\ lastOp.old = <<Backslash, 65, Slash, Slash, 120>>
    /\ PathAx \in DOMAIN prevProgress
    /\ Cardinality(DOMAIN prevProgress) >= 2
    /\ DOMAIN progress = DOMAIN prevProgress
    /\ getProgress(progress, PathAx).found
    /\ getProgress(progress, PathAx) # getProgress(prevProgress, PathAx)
    /\ getProgress(progress, lastOp.old) = getProgress(progress, PathAx)

\* C22: a jump request handed to a view whose file is loaded and whose
\* rendition is attached starts a display of its target (displayJumpCfi is
\* called for it and reaches the rendition), also when the request before
\* it had the same target and nothing was rendered in between.
C22_EveryJumpDisplayed == delivery.attached => delivery.started

\* C23: the debounced refresh takes the list it resolved and renders with
\* it whenever that list is not the list held, whether the two differ in a
\* range, a source note, a label, in order or in length; when they are the
\* same list it does neither.
C23_SkipOnlyWhenEqual ==
    /\ refreshLog.differs => (refreshLog.taken /\ refreshLog.rendered)
    /\ ~refreshLog.differs => ~refreshLog.rendered

\* C24: the tracked ranges (addedBacklinkCfisRef.current) change only in a
\* step in which applyBacklinkHighlights is called; attaching a rendition,
\* like every other action of the reader, leaves them as they are.
C24_TrackedOnlyInReconcile ==
    [][addedBacklinkCfisRef' # addedBacklinkCfisRef => applyLog'.r # 0]_vars

\* C26: a run() that waits for book.ready is the run of the list and the
\* rendition the reader holds now, and of a reader that is not unmounted;
\* every call of applyBacklinkHighlights applies the list held at that
\* time to the rendition held at that time, so no list is applied after a
\* newer one; and once the reader is unmounted the surface and the tracked
\* ranges do not change any more.
SurfaceUntouched ==
    /\ annotations' = annotations
    /\ addedBacklinkCfisRef' = addedBacklinkCfisRef
    /\ applyLog' = applyLog

C26_NoStaleReconcile ==
    /\ [](hlRun.active =>
             (~unloaded /\ hlRun.list = highlightsRef /\ hlRun.r = renditionRef))
    /\ [][(applyLog' # applyLog /\ applyLog'.r # 0) =>
             (applyLog'.list = highlightsRef' /\ applyLog'.r = renditionRef')]_vars
    /\ [][unloaded => SurfaceUntouched]_vars

\* The reader was unmounted while a run() waited for book.ready of the
\* rendition, with a list that is not empty; book.ready has settled since
\* and nothing was applied.
C26_Witness ==
    /\ unloaded
    /\ renditionRef # 0
    /\ readySettled[renditionRef]
    /\ ~hasContents[renditionRef]
    /\ highlightsRef # <<>>
    /\ applyLog = NoLog
    /\ \A c \in Ranges : annotations[renditionRef][c] = 0

\* C29: on the rendition the reader holds, every range that carries a
\* backlink annotation is among the tracked ranges, and is a range of the
\* list applied last: no annotation is left that a later call would not
\* try to remove, also when a remove has failed.
C29_NoOrphanAnnotation ==
    renditionRef # 0 =>
        \A c \in Ranges :
            annotations[renditionRef][c] > 0 =>
                /\ c \in TrackedSet
                /\ applyLog.r = renditionRef =>
                       \E i \in 1..Len(applyLog.list) : applyLog.list[i].cfiRange = c

\* C25: while no rendition is attached, the request the reader received
\* last is the pending one, whatever renders came after it; the step that
\* attaches a rendition starts displayJumpCfi for the pending request on
\* that rendition; its display(target) is called as soon as book.ready has
\* settled, and a rejected display(target) is followed by display of the
\* start anchor when there is one.
HeldUntilAttach ==
    (mounted /\ renditionRef = 0 /\ reqCount > 0) =>
        /\ pendingJumpRef = reqTarget[reqCount]
        /\ pendingReq = reqCount
        /\ jumpTasks = {}

AttemptedAtAttach ==
    (renditionRef' # renditionRef /\ pendingJumpRef # <<>>) =>
        /\ NewTask(pendingReq, pendingJumpRef, renditionRef', readySettled'[renditionRef'])
               \in jumpTasks'
        /\ readySettled'[renditionRef'] =>
               directAttempts'[pendingReq] = directAttempts[pendingReq] + 1

DirectThenFallback ==
    \A t \in jumpTasks :
        (/\ t.pc = "direct"
         /\ t \notin jumpTasks'
         /\ ~lastSettled'.ok
         /\ getRangeStartCfi(t.cfi) \notin {<<>>, t.cfi})
            => /\ [t EXCEPT !.pc = "fallback"] \in jumpTasks'
               /\ fallbackAttempts'[t.req] = fallbackAttempts[t.req] + 1

C25_PendingUntilAttach ==
    /\ [](HeldUntilAttach)
    /\ [](\A t \in jumpTasks : t.pc = "ready" => ~readySettled[t.r])
    /\ [][AttemptedAtAttach]_vars
    /\ [][DirectThenFallback]_vars

\* The request came with the leaf's state at load, before any rendition: the
\* render with the target was followed by the render with none; the first
\* rendition attached later, display(target) on it was rejected and the
\* display of the start anchor has settled.
C25_Witness ==
    /\ delivery = NoDelivery
    /\ reqCount = 1
    /\ propJump = <<>>
    /\ renditionRef = 1
    /\ directAttempts[1] = 1
    /\ fallbackAttempts[1] = 1
    /\ lastSettled.req = 1
    /\ lastSettled.r = 1
    /\ lastSettled.kind = "fallback"

\* C30: this.jumpCfiRange is empty after every render; a render that was
\* not made for a jump request (settings, refreshed highlights) passes no
\* jumpCfiRange and starts no displayJumpCfi; while the file is not loaded
\* a held target is not emptied; and the step that empties the field
\* passes a target to the reader, the held one unless a request came with
\* that step, which becomes the reader's pending request.
HandedOver ==
    (viewJump # <<>> /\ viewJump' = <<>>) =>
        /\ handover'.passed # <<>>
        /\ handover'.cause = "held" => handover'.passed = viewJump
        /\ pendingJumpRef' = handover'.passed
        /\ reqCount' = reqCount + 1

C30_OneShotJump ==
    /\ [](fileLoaded => viewJump = <<>>)
    /\ [](handover.cause = "none" => (handover.passed = <<>> /\ ~handover.started))
    /\ [][(viewJump # <<>> /\ ~fileLoaded') => viewJump' # <<>>]_vars
    /\ [][HandedOver]_vars

\* A target was handed to the reader and is its pending request; the last
\* render was made for another reason and passed none.
C30_Witness ==
    /\ handover.cause = "none"
    /\ propJump = <<>>
    /\ reqCount > 0
    /\ pendingJumpRef = reqTarget[reqCount]
    /\ pendingJumpRef # <<>>
    /\ renditionRef # 0

\* C12: parseEpubCfi64Link is total: for every text, one with a malformed
\* percent-escape or a malformed deep link and the empty one too, it returns
\* a pair of path and token or null, and never raises an exception.
C12_Total == pStage = "done" => ~pResult.threw

\* C21: a deep link whose file parameter encodes the path P and whose
\* fragment is F gets from parseEpubCfi64Link what the plain link text P + F
\* gets: the same path and token, null for both, or an exception for both.
C21_DeepLinkAsPlain == pStage = "paired" => pResult = pPlainResult

\* C15: for a text that is no deep link, parseEpubCfi64Link splits at the
\* first '#': it returns null unless the part before it ends with ".epub",
\* in any case of the letters, and the whole of what follows the first '#'
\* holds "cfi64=" with a token character after it; else it returns the
\* normalized path and the token after the first such key.  (The part
\* before the '#' is read with its percent-escapes resolved, and a call
\* that raised is left to C12.)
C15_SplitAtFirstHash ==
    (pStage = "done" /\ ~StartsWithAt(pInput, 1, ObsidianScheme) /\ ~pResult.threw) =>
        LET h == IndexOfFrom(pInput, Hash, 1)
            before == IF h = 0 THEN pInput ELSE SubSeq(pInput, 1, h - 1)
            remainder == IF h = 0 THEN <<>> ELSE SubSeq(pInput, h + 1, Len(pInput))
            pathPart == decodeURIComponent(before, 1).value
            token == SubpathToken(remainder, 1)
        IN  IF endsWith(ToLowerCase(pathPart), DotEpub) /\ token # <<>>
            THEN pResult = [threw |-> FALSE, found |-> TRUE,
                            path |-> normalizePath(pathPart), cfi64 |-> token]
            ELSE pResult = NoLink

(***************************************************************************)
(* Tokens that do not come from base64UrlEncode                            *)
(***************************************************************************)

\* s is base64: four characters to a group, all of the alphabet, but for
\* one or two '=' that may end it.
IsBase64(s) ==
    /\ Len(s) % 4 = 0
    /\ \A i \in 1..Len(s) :
          \/ IsB64Char(s[i])
          \/ s[i] = 61 /\ i >= Len(s) - 1 /\ \A j \in i..Len(s) : s[j] = 61

\* The token with the alphabet mapped back and the padding added.
Remapped(tok) == PadToFour(ReplaceAll(ReplaceAll(tok, 45, 43), 95, 47))

\* The octets are UTF-8: decoding and encoding them gives them back.
IsUtf8(octets) ==
    TextEncode(ToCodeUnits(Utf8DecodeFrom(octets, 1, 0, 0, 128, 191))) = octets

\* C13: base64UrlDecode raises for every token that is not base64 after the
\* alphabet is mapped back and the padding added, and for every token whose
\* octets are not UTF-8: for no such token does it return a string.
C13_DecodeFails ==
    (cStage = "read" /\ cOutput.ok) =>
        /\ IsBase64(Remapped(cToken))
        /\ IsUtf8(Atob(Remapped(cToken)).value)

\* C14: for every token t that is not empty, is made of [A-Za-z0-9_-] and
\* is accepted by base64UrlDecode, base64UrlEncode(base64UrlDecode(t)) is t.
C14_TokenRoundTrip ==
    (/\ cStage = "rewritten"
     /\ cToken # <<>>
     /\ \A i \in 1..Len(cToken) : IsTokenChar(cToken[i]))
        => cAgain = cToken

(***************************************************************************)
(* The cap of the backlink highlights                                      *)
(***************************************************************************)

\* The places among the first n whose add was accepted, and the place a
\* range of place k has among the tracked ranges.
AcceptedPlaces(ok, n) == {k \in 1..n : ok[k]}
RankIn(places, k) == Cardinality({m \in places : m <= k})

\* C16: after applyBacklinkHighlights(surface, D) the tracked ranges are
\* those of the descriptors among the first min(80, len(D)) whose add the
\* surface accepted, in their order: a rejected add stops no later one, no
\* descriptor from place 81 on is added, and of 100 accepted descriptors
\* exactly 80 are on the surface.
C16_CapAndSkip ==
    kStage = "done" =>
        LET n == IF Len(kList) < 80 THEN Len(kList) ELSE 80
            places == AcceptedPlaces(kAddOk, n)
        IN  /\ Len(kTracked) = Cardinality(places)
            /\ \A k \in places : kTracked[RankIn(places, k)] = kList[k].cfiRange
            /\ \A i \in 1..Len(kList) :
                  (i <= 80 /\ kAddOk[i]) => kSurface[kList[i].cfiRange] >= 1
            /\ \A i \in 1..Len(kList) :
                  i > 80 => \A j \in 1..Len(kTracked) : kTracked[j] # kList[i].cfiRange
            /\ (Len(kList) = MaxDescriptors /\ \A i \in 1..MaxDescriptors : kAddOk[i])
                  => Len(kTracked) = 80

\* The longest list, the second add rejected: 79 ranges are tracked,
\* the 80th descriptor's last, the 81st descriptor's not.
C16_Witness ==
    /\ kStage = "done"
    /\ Len(kList) = MaxDescriptors
    /\ \A i \in 1..MaxDescriptors : kAddOk[i] <=> i # 2
    /\ Len(kTracked) = 79
    /\ kTracked[1] = LongRange(1)
    /\ kTracked[2] = LongRange(3)
    /\ kTracked[79] = LongRange(80)
    /\ kSurface[LongRange(2)] = 0
    /\ kSurface[LongRange(80)] = 1
    /\ kSurface[LongRange(81)] = 0

====
